---- MODULE Spec2Model ----
(***************************************************************************)
(* Dataset merge engine of tag-editor (POST /api/datasets/merge).          *)
(*                                                                         *)
(* The model follows the transactional version of the handler              *)
(* (merge/route.ts from line 449 on): input validation, loading of the     *)
(* source datasets, the orphaned-category pass, conflict detection, the    *)
(* two category passes, duplicate-image resolution, createImageRecord,     *)
(* the object-store copies and the commit.                                 *)
(*                                                                         *)
(* Strings are TLA+ strings and are built by concatenation as the code     *)
(* builds them; an absent optional string is "" and an absent optional     *)
(* number is 0, the values JavaScript's `||` treats as absent.             *)
(* Fields that no branch of the handler reads (supercategory, width,       *)
(* height, bbox, area, iscrowd, dateCaptured, license) are left out.       *)
(***************************************************************************)
EXTENDS Integers, Sequences, FiniteSets, TLC

----------------------------------------------------------------------------
(* Bounds of the explored inputs *)

\* longest categoryMappingDecisions array of a request
MaxDecisions == 2
\* most annotations on one source image
MaxAnns == 2

(* Constants of the program *)

CategoryCocoOffset == 10000
ImageCocoOffset == 100000
AnnotationCocoOffset == 1000000

----------------------------------------------------------------------------
(* Generic helpers *)

Max(S) == CHOOSE x \in S : \A y \in S : y <= x

Range(s) == {s[k] : k \in 1..Len(s)}

\* the ids of a set of records, and the next autoincrement id
Ids(S) == {r.id : r \in S}

NextId(S) == IF S = {} THEN 1 ELSE Max(Ids(S)) + 1

\* a set of records as a sequence in ascending id order (findMany order)
RECURSIVE SortById(_)
SortById(S) ==
  IF S = {} THEN <<>>
  ELSE LET m == CHOOSE r \in S : \A q \in S : r.id <= q.id
       IN <<m>> \o SortById(S \ {m})

\* Array.prototype.find over the outcomes of the callback on each element:
\* index of the first element the callback accepts, 0 if none
FindIndex(hits) ==
  IF \E k \in 1..Len(hits) : hits[k]
  THEN CHOOSE k \in 1..Len(hits) : hits[k] /\ \A m \in 1..(k-1) : ~hits[m]
  ELSE 0

RECURSIVE SumSeq(_)
SumSeq(s) == IF s = <<>> THEN 0 ELSE Head(s) + SumSeq(Tail(s))

----------------------------------------------------------------------------
(* Records *)

Category(id, datasetId, name, cocoId) ==
  [id |-> id, datasetId |-> datasetId, name |-> name, cocoId |-> cocoId]

\* a loaded annotation, carrying its category id (include: {category: true})
LoadedAnnotation(id, cocoId, categoryId) ==
  [id |-> id, cocoId |-> cocoId, categoryId |-> categoryId]

\* a loaded image with its annotations
LoadedImage(id, fileName, cocoId, filePath, thumbnailPath, annotations) ==
  [id |-> id, fileName |-> fileName, cocoId |-> cocoId, filePath |-> filePath,
   thumbnailPath |-> thumbnailPath, annotations |-> annotations]

\* one element of sourceDatasets
LoadedDataset(id, name, categories, images) ==
  [id |-> id, name |-> name, categories |-> categories, images |-> images]

Decision(conflictIndex, action, targetCategoryName, targetCocoId) ==
  [conflictIndex |-> conflictIndex, action |-> action,
   targetCategoryName |-> targetCategoryName, targetCocoId |-> targetCocoId]

\* `${sourceDataset.id}:${category.id}`
MappingKey(datasetId, categoryId) ==
  ToString(datasetId) \o ":" \o ToString(categoryId)

\* `${category.name}_${category.cocoId}`
ConflictKey(c) == c.name \o "_" \o ToString(c.cocoId)

\* `${sourceDataset.name}_${category.name}`
SeparateName(dsName, catName) == dsName \o "_" \o catName

\* `[${sourceDataset.name}] ${category.name}`
DatasetPrefixedName(dsName, catName) == "[" \o dsName \o "] " \o catName

\* `[MISSING]_${sourceDataset.name || "Unknown"}_CategoryID_${id}`
MissingName(dsName, categoryId) ==
  "[MISSING]_" \o (IF dsName = "" THEN "Unknown" ELSE dsName)
    \o "_CategoryID_" \o ToString(categoryId)

\* `dataset-${finalDataset.id}/${finalFileName}`
TargetFilePath(datasetId, fileName) ==
  "dataset-" \o ToString(datasetId) \o "/" \o fileName

\* `dataset-${finalDataset.id}/thumbnails/${finalFileName}`
TargetThumbnailPath(datasetId, fileName) ==
  "dataset-" \o ToString(datasetId) \o "/thumbnails/" \o fileName

----------------------------------------------------------------------------
(* State *)

VARIABLES
  pc,                    \* position of the handler
  analysis,              \* the answer of analyze-merge, <<>> before it
  req,                   \* the body of the request
  response,              \* HTTP status of the answer, 0 while running
  datasets,              \* record store: dataset id -> name (committed)
  dbCats,                \* record store: Category rows (committed)
  dbImgs,                \* record store: Image rows (committed)
  dbAnns,                \* record store: Annotation rows (committed)
  snap,                  \* what findMany returns for each dataset id
  objects,               \* object store: the keys that hold an object
  sourceDatasets,        \* the loaded source datasets (working copies)
  finalDatasetId,        \* finalDataset.id, 0 before step 1
  txDatasets,            \* rows written inside the open transaction
  txCats,
  txImgs,
  txAnns,
  existingCategories,
  conflicts,
  mergeTargetCategories,
  categoryMappings,
  imageGroups,
  copiedFiles,
  duplicateWarnings,
  totalAnnotationResults,
  copyResults,
  thumbnailCopyResults,
  i,                     \* outer loop index of the running loop
  j,                     \* inner loop index of the running loop
  mergeProgress,         \* progress sink: merge-run id -> entry
  runs,                  \* the reporting side of each merge run
  polled                 \* the last answer of GET merge-progress per run id

storeVars == <<datasets, dbCats, dbImgs, dbAnns>>

txVars == <<txDatasets, txCats, txImgs, txAnns>>

categoryVars ==
  <<existingCategories, conflicts, mergeTargetCategories, categoryMappings>>

imageVars ==
  <<imageGroups, copiedFiles, duplicateWarnings, totalAnnotationResults>>

copyVars == <<copyResults, thumbnailCopyResults, objects>>

progressVars == <<mergeProgress, runs, polled>>

mergeVars ==
  <<pc, analysis, req, response, snap, sourceDatasets, finalDatasetId, i, j,
    storeVars, txVars, categoryVars, imageVars, copyVars>>

vars == <<mergeVars, progressVars>>

----------------------------------------------------------------------------
(* The record store as the open transaction sees it *)

VisibleCats == dbCats \cup txCats

VisibleImgs == dbImgs \cup txImgs

VisibleAnns == dbAnns \cup txAnns

\* @@unique([cocoId, datasetId]) of Category, Image and Annotation
UniqueCocoId(rows, datasetId, cocoId) ==
  ~\E r \in rows : r.datasetId = datasetId /\ r.cocoId = cocoId

\* tx.category.findUnique({ where: { id } }): the set holding the row, or {}
FindCategory(id) == {c \in VisibleCats : c.id = id}

\* the uncaught throw of a statement inside prisma.$transaction: the
\* transaction rolls back and the handler answers 500
Rollback ==
  /\ pc' = "failed"
  /\ response' = 500
  /\ txDatasets' = {}
  /\ txCats' = {}
  /\ txImgs' = {}
  /\ txAnns' = {}

----------------------------------------------------------------------------
(* Validation and loading, outside the transaction *)

ValidActions == {"merge", "keep_separate", "rename"}

\* variant: a handler that validates nothing
RequestRejectedNever == FALSE

RequestRejected ==
  \/ Len(req.sourceDatasetIds) < 2
  \/ req.mergeStrategy = "merge_into_existing" /\ req.targetDatasetId = 0
  \/ req.mergeStrategy = "create_new" /\ req.newDatasetName = ""
  \/ \E k \in 1..Len(req.categoryMappingDecisions) :
       \/ req.categoryMappingDecisions[k].conflictIndex < 0
       \/ req.categoryMappingDecisions[k].action \notin ValidActions

Validate ==
  /\ pc = "request"
  /\ IF RequestRejected
     THEN pc' = "rejected" /\ response' = 400
     ELSE pc' = "validated" /\ UNCHANGED response
  /\ UNCHANGED progressVars
  /\ UNCHANGED <<analysis, req, snap, sourceDatasets, finalDatasetId, i, j, storeVars,
                 txVars, categoryVars, imageVars, copyVars>>

\* prisma.dataset.findMany({ where: { id: { in: sourceDatasetIds } } })
FoundSourceIds == Range(req.sourceDatasetIds) \cap DOMAIN datasets

RECURSIVE LoadedInIdOrder(_)
\* the rows findMany returns, in the order of the primary key (the query
\* gives no orderBy)
LoadedInIdOrder(ids) ==
  IF ids = {} THEN <<>>
  ELSE LET m == CHOOSE x \in ids : \A y \in ids : x <= y
       IN <<snap[m]>> \o LoadedInIdOrder(ids \ {m})

Load ==
  /\ pc = "validated"
  /\ IF Cardinality(FoundSourceIds) # Len(req.sourceDatasetIds)
     THEN pc' = "rejected" /\ response' = 404 /\ UNCHANGED sourceDatasets
     ELSE IF /\ req.mergeStrategy = "merge_into_existing"
             /\ req.targetDatasetId \notin DOMAIN datasets
     THEN pc' = "rejected" /\ response' = 404 /\ UNCHANGED sourceDatasets
     ELSE /\ pc' = "loaded"
          /\ sourceDatasets' = LoadedInIdOrder(FoundSourceIds)
          /\ UNCHANGED response
  /\ UNCHANGED progressVars
  /\ UNCHANGED <<analysis, req, snap, finalDatasetId, i, j, storeVars, txVars,
                 categoryVars, imageVars, copyVars>>

----------------------------------------------------------------------------
(* Step 1: the target dataset *)

BeginTransaction ==
  /\ pc = "loaded"
  /\ IF req.mergeStrategy = "create_new"
     THEN LET id == Max(DOMAIN datasets) + 1
          IN /\ finalDatasetId' = id
             /\ txDatasets' = {[id |-> id, name |-> req.newDatasetName]}
     ELSE /\ finalDatasetId' = req.targetDatasetId
          /\ UNCHANGED txDatasets
  /\ existingCategories' =
       SortById({c \in dbCats : c.datasetId = finalDatasetId'})
  /\ pc' = "orphans"
  /\ i' = 1
  /\ UNCHANGED progressVars
  /\ UNCHANGED <<analysis, req, response, snap, sourceDatasets, j, storeVars, txCats,
                 txImgs, txAnns, conflicts, mergeTargetCategories,
                 categoryMappings, imageVars, copyVars>>

----------------------------------------------------------------------------
(* Step 2a: orphaned categories *)

RECURSIVE AnnotationCategoryIds(_)
\* annotation.category.id over the images of a dataset, in loop order
AnnotationCategoryIds(images) ==
  IF images = <<>> THEN <<>>
  ELSE [k \in 1..Len(Head(images).annotations) |->
          Head(images).annotations[k].categoryId]
       \o AnnotationCategoryIds(Tail(images))

RECURSIVE InsertionOrder(_, _)
\* the elements of a Set filled from s[1..n], in insertion order
InsertionOrder(s, n) ==
  IF n = 0 THEN <<>>
  ELSE LET prev == InsertionOrder(s, n - 1)
       IN IF s[n] \in Range(prev) THEN prev ELSE Append(prev, s[n])

\* variant: a pass that takes no referenced id for orphaned
OrphanedIdsNone(sd) == <<>>

OrphanedIds(sd) ==
  LET refs == AnnotationCategoryIds(sd.images)
      referenced == InsertionOrder(refs, Len(refs))
      existing == {sd.categories[k].id : k \in 1..Len(sd.categories)}
  IN SelectSeq(referenced, LAMBDA id : id \notin existing)

\* variant: a lookup that finds no row
FoundOrphansNone(ids) == <<>>

RECURSIVE FoundOrphans(_)
\* the rows findUnique returns for the orphaned ids, in order
FoundOrphans(ids) ==
  IF ids = <<>> THEN <<>>
  ELSE (IF FindCategory(Head(ids)) = {} THEN <<>>
        ELSE <<CHOOSE c \in FindCategory(Head(ids)) : TRUE>>)
       \o FoundOrphans(Tail(ids))

OrphanStep ==
  /\ pc = "orphans"
  /\ i <= Len(sourceDatasets)
  /\ sourceDatasets' =
       [sourceDatasets EXCEPT ![i].categories =
          @ \o FoundOrphans(OrphanedIds(sourceDatasets[i]))]
  /\ IF i = Len(sourceDatasets)
     THEN pc' = "conflicts" /\ i' = 1
     ELSE pc' = pc /\ i' = i + 1
  /\ UNCHANGED progressVars
  /\ UNCHANGED <<analysis, req, response, snap, finalDatasetId, j, storeVars, txVars,
                 categoryVars, imageVars, copyVars>>

----------------------------------------------------------------------------
(* Step 2b: conflicts *)

RECURSIVE AllItems(_)
\* { category, dataset } over all source datasets, in loop order
AllItems(sds) ==
  IF sds = <<>> THEN <<>>
  ELSE [k \in 1..Len(Head(sds).categories) |->
          [category |-> Head(sds).categories[k], dataset |-> Head(sds).id]]
       \o AllItems(Tail(sds))

\* categoryConflictMap filtered to the entries with more than one item,
\* numbered from 0 in the Map's insertion order
CategoryConflicts(sds) ==
  LET items == AllItems(sds)
      allKeys == [k \in 1..Len(items) |-> ConflictKey(items[k].category)]
      keys == InsertionOrder(allKeys, Len(allKeys))
      group(key) ==
        SelectSeq(items, LAMBDA it : ConflictKey(it.category) = key)
      multi == SelectSeq(keys, LAMBDA key : Len(group(key)) > 1)
  IN [k \in 1..Len(multi) |->
        [key |-> multi[k], items |-> group(multi[k]), index |-> k - 1]]

\* the loops that have nothing to iterate over are passed through
AfterSecondPass == "groupImages"

\* variant: a handler that goes from the first pass to the images
AfterFirstPassSkipping == AfterSecondPass

AfterFirstPass ==
  IF AllItems(sourceDatasets) = <<>> THEN AfterSecondPass ELSE "secondPass"

AfterConflicts ==
  IF req.categoryMappingDecisions = <<>> THEN AfterFirstPass ELSE "firstPass"

DetectConflicts ==
  /\ pc = "conflicts"
  /\ conflicts' = CategoryConflicts(sourceDatasets)
  /\ pc' = AfterConflicts
  /\ i' = 1
  /\ UNCHANGED progressVars
  /\ UNCHANGED <<analysis, req, response, snap, sourceDatasets, finalDatasetId, j,
                 storeVars, txVars, existingCategories, mergeTargetCategories,
                 categoryMappings, imageVars, copyVars>>

----------------------------------------------------------------------------
(* Step 2c: the two category passes *)

\* variant: a lookup that keeps the first decision set for an index
DecisionLookupFirst(index) ==
  LET ks == {k \in 1..Len(req.categoryMappingDecisions) :
               req.categoryMappingDecisions[k].conflictIndex = index}
  IN IF ks = {} THEN 0 ELSE CHOOSE k \in ks : \A m \in ks : k <= m

\* decisionLookup.get(`conflict_${index}`): position of the decision the
\* Map holds for the index (the last one set), 0 if none
DecisionLookup(index) ==
  LET ks == {k \in 1..Len(req.categoryMappingDecisions) :
               req.categoryMappingDecisions[k].conflictIndex = index}
  IN IF ks = {} THEN 0 ELSE Max(ks)

\* variant: a resolver that never looks a category up by name
FindByNameNone(name) == 0

\* existingCategories.find((c) => c.name === name)
FindByName(name) ==
  FindIndex([k \in 1..Len(existingCategories) |->
               existingCategories[k].name = name])

\* variant: a store without the unique constraint on Category
CanCreateCategoryAlways(cocoId) == TRUE

\* tx.category.create succeeds unless (cocoId, datasetId) is taken
CanCreateCategory(cocoId) == UniqueCocoId(VisibleCats, finalDatasetId, cocoId)

NewCategory(name, cocoId) ==
  Category(NextId(VisibleCats), finalDatasetId, name, cocoId)

FirstPassStep ==
  /\ pc = "firstPass"
  /\ i <= Len(req.categoryMappingDecisions)
  /\ LET decision == req.categoryMappingDecisions[i]
         conflict == conflicts[decision.conflictIndex + 1]
         targetName ==
           IF decision.targetCategoryName # ""
           THEN decision.targetCategoryName
           ELSE conflict.items[1].category.name
         targetCocoId ==
           IF decision.targetCocoId # 0
           THEN decision.targetCocoId
           ELSE conflict.items[1].category.cocoId
         existingTarget == FindByName(targetName)
         advance ==
           /\ i' = (IF i = Len(req.categoryMappingDecisions) THEN 1 ELSE i + 1)
           /\ pc' = (IF i = Len(req.categoryMappingDecisions)
                     THEN AfterFirstPass ELSE pc)
           /\ UNCHANGED <<response, txDatasets, txImgs, txAnns>>
     IN IF /\ decision.action = "merge"
           /\ decision.conflictIndex < Len(conflicts)
           /\ decision.conflictIndex \notin DOMAIN mergeTargetCategories
        THEN IF existingTarget # 0
             THEN /\ mergeTargetCategories' =
                       (decision.conflictIndex :>
                          existingCategories[existingTarget].id)
                       @@ mergeTargetCategories
                  /\ advance
                  /\ UNCHANGED <<txCats, existingCategories>>
             ELSE IF CanCreateCategory(targetCocoId)
             THEN LET newCategory == NewCategory(targetName, targetCocoId)
                  IN /\ txCats' = txCats \cup {newCategory}
                     /\ existingCategories' =
                          Append(existingCategories, newCategory)
                     /\ mergeTargetCategories' =
                          (decision.conflictIndex :> newCategory.id)
                          @@ mergeTargetCategories
                     /\ advance
             ELSE /\ Rollback
                  /\ UNCHANGED <<i, existingCategories,
                                 mergeTargetCategories>>
        ELSE /\ advance
             /\ UNCHANGED <<txCats, existingCategories, mergeTargetCategories>>
  /\ UNCHANGED progressVars
  /\ UNCHANGED <<analysis, req, snap, sourceDatasets, finalDatasetId, j, storeVars,
                 conflicts, categoryMappings, imageVars, copyVars>>

SourceDataset(id) ==
  sourceDatasets[CHOOSE k \in 1..Len(sourceDatasets) : sourceDatasets[k].id = id]

\* conflicts.find((c) => c.key === conflictKey), 0 if none
ConflictOf(category) ==
  FindIndex([k \in 1..Len(conflicts) |->
               conflicts[k].key = ConflictKey(category)])

\* variant: a second pass that never consults the decisions
UserDecisionNone(category) == 0

\* position of the user decision that governs a category, 0 if none
UserDecision(category) ==
  IF ConflictOf(category) = 0 THEN 0
  ELSE DecisionLookup(conflicts[ConflictOf(category)].index)

DefaultCocoId(category, sd) == category.cocoId + sd.id * CategoryCocoOffset

\* the name and cocoId under which the second pass looks up or creates the
\* target of a category that is not mapped to a merge target
TargetSpec(category, sd) ==
  LET d == UserDecision(category)
      decision == req.categoryMappingDecisions[d]
  IN IF d # 0
     THEN IF decision.action = "rename"
          THEN [name |-> IF decision.targetCategoryName # ""
                         THEN decision.targetCategoryName
                         ELSE SeparateName(sd.name, category.name),
                cocoId |-> IF decision.targetCocoId # 0
                           THEN decision.targetCocoId
                           ELSE DefaultCocoId(category, sd)]
          ELSE [name |-> SeparateName(sd.name, category.name),
                cocoId |-> DefaultCocoId(category, sd)]
     ELSE CASE req.categoryMergeStrategy = "keep_separate" ->
                 [name |-> SeparateName(sd.name, category.name),
                  cocoId |-> DefaultCocoId(category, sd)]
            [] req.categoryMergeStrategy = "merge_by_name" ->
                 [name |-> category.name,
                  cocoId |-> DefaultCocoId(category, sd)]
            [] req.categoryMergeStrategy = "prefix_with_dataset" ->
                 [name |-> DatasetPrefixedName(sd.name, category.name),
                  cocoId |-> DefaultCocoId(category, sd)]

\* case "merge" of the second pass
IsMergeDecided(category) ==
  /\ UserDecision(category) # 0
  /\ req.categoryMappingDecisions[UserDecision(category)].action = "merge"

\* mergeTargetCategories.get(conflict.index)!, 0 when the Map has no entry
MergeTargetOf(category) ==
  LET index == conflicts[ConflictOf(category)].index
  IN IF index \in DOMAIN mergeTargetCategories
     THEN mergeTargetCategories[index] ELSE 0

SecondPassStep ==
  /\ pc = "secondPass"
  /\ i <= Len(AllItems(sourceDatasets))
  /\ LET item == AllItems(sourceDatasets)[i]
         category == item.category
         sd == SourceDataset(item.dataset)
         key == MappingKey(sd.id, category.id)
         last == (i = Len(AllItems(sourceDatasets)))
         advance ==
           /\ i' = (IF last THEN 1 ELSE i + 1)
           /\ pc' = (IF last THEN AfterSecondPass ELSE pc)
           /\ UNCHANGED <<response, txDatasets, txImgs, txAnns>>
     IN IF IsMergeDecided(category)
        THEN /\ categoryMappings' =
                  (key :> MergeTargetOf(category)) @@ categoryMappings
             /\ advance
             /\ UNCHANGED <<txCats, existingCategories>>
        ELSE LET spec == TargetSpec(category, sd)
                 existing == FindByName(spec.name)
             IN IF existing # 0
                THEN /\ categoryMappings' =
                          (key :> existingCategories[existing].id)
                          @@ categoryMappings
                     /\ advance
                     /\ UNCHANGED <<txCats, existingCategories>>
                ELSE IF CanCreateCategory(spec.cocoId)
                THEN LET newCategory == NewCategory(spec.name, spec.cocoId)
                     IN /\ txCats' = txCats \cup {newCategory}
                        /\ existingCategories' =
                             Append(existingCategories, newCategory)
                        /\ categoryMappings' =
                             (key :> newCategory.id) @@ categoryMappings
                        /\ advance
                ELSE /\ Rollback
                     /\ UNCHANGED <<i, existingCategories, categoryMappings>>
  /\ UNCHANGED progressVars
  /\ UNCHANGED <<analysis, req, snap, sourceDatasets, finalDatasetId, j, storeVars,
                 conflicts, mergeTargetCategories, imageVars, copyVars>>

----------------------------------------------------------------------------
(* createImageRecord *)

\* the file names that occur in the explored datasets, with what
\* fileName.replace(/\.[^/.]+$/, "") and fileName.split(".").pop() give
FileNames == {"f.jpg", "g.jpg", "f_2.jpg", "h"}

NameWithoutExt(fileName) ==
  CASE fileName = "f.jpg" -> "f"
    [] fileName = "g.jpg" -> "g"
    [] fileName = "f_2.jpg" -> "f_2"
    [] fileName = "h" -> "h"

Extension(fileName) ==
  CASE fileName \in {"f.jpg", "g.jpg", "f_2.jpg"} -> "jpg"
    [] fileName = "h" -> "h"

\* `${nameWithoutExt}_${i + 1}.${extension}` for the member at 1-based
\* position n of its group (n = i + 1)
\* variant: a rename that does not number the copies
RenamedFileNameUnnumbered(fileName, n) ==
  NameWithoutExt(fileName) \o "_copy." \o Extension(fileName)

RenamedFileName(fileName, n) ==
  NameWithoutExt(fileName) \o "_" \o ToString(n) \o "." \o Extension(fileName)

NoResults == [success |-> 0, failed |-> 0, skippedNoCategory |-> 0,
              errors |-> <<>>]

AddResults(a, b) ==
  [success |-> a.success + b.success,
   failed |-> a.failed + b.failed,
   skippedNoCategory |-> a.skippedNoCategory + b.skippedNoCategory,
   errors |-> a.errors \o b.errors]

\* categoryMappings.get(key), 0 when absent
MappingGet(mappings, key) ==
  IF key \in DOMAIN mappings THEN mappings[key] ELSE 0

\* The body of the annotation loop for one annotation.  st carries the
\* rows of the transaction and the locals the loop updates.  A create that
\* violates a unique constraint throws into the catch block of the loop and
\* writes nothing; the loop goes on with the transaction as it was, which
\* is what the catch blocks of the handler rely on.
CopyAnnotation(st, annotation, sd, newImageId) ==
  LET key == MappingKey(sd.id, annotation.categoryId)
      mapped == MappingGet(st.mappings, key)
      visible == dbCats \cup st.cats
      found == {c \in visible : c.id = annotation.categoryId}
      missingCategory == CHOOSE c \in found : TRUE
      recovered == found # {} /\ missingCategory.datasetId = sd.id
      newName ==
        IF recovered
        THEN SeparateName(IF sd.name = "" THEN "Unknown" ELSE sd.name,
                          missingCategory.name)
        ELSE MissingName(sd.name, annotation.categoryId)
      newCocoId ==
        IF recovered
        THEN missingCategory.cocoId + sd.id * CategoryCocoOffset
        ELSE annotation.categoryId + sd.id * CategoryCocoOffset
      created == Category(NextId(visible), finalDatasetId, newName, newCocoId)
      createFails == ~UniqueCocoId(visible, finalDatasetId, newCocoId)
      \* after the `if (!newCategoryId)` block
      st1 ==
        IF mapped # 0 THEN st
        ELSE IF createFails
        THEN [st EXCEPT
                !.results.skippedNoCategory = @ + 1,
                !.results.errors =
                  Append(@, [kind |-> "category", annotation |-> annotation.id])]
        ELSE [st EXCEPT
                !.cats = @ \cup {created},
                !.mappings = (key :> created.id) @@ @]
      newCategoryId ==
        IF mapped # 0 THEN mapped
        ELSE IF createFails THEN 0 ELSE created.id
      annCocoId == annotation.cocoId + sd.id * AnnotationCocoOffset
      allAnns == dbAnns \cup st1.anns
      newAnnotation ==
        [id |-> NextId(allAnns), datasetId |-> finalDatasetId,
         imageId |-> newImageId, categoryId |-> newCategoryId,
         cocoId |-> annCocoId, source |-> annotation.id]
  IN IF newCategoryId = 0 THEN st1     \* continue
     ELSE IF UniqueCocoId(allAnns, finalDatasetId, annCocoId)
     THEN [st1 EXCEPT !.anns = @ \cup {newAnnotation},
                      !.results.success = @ + 1]
     ELSE [st1 EXCEPT
             !.results.failed = @ + 1,
             !.results.errors =
               Append(@, [kind |-> "annotation", annotation |-> annotation.id])]

RECURSIVE CopyAnnotationsUntilFailure(_, _, _, _)
\* variant: an annotation loop that leaves at the first annotation it
\* cannot copy
CopyAnnotationsUntilFailure(st, annotations, sd, newImageId) ==
  IF annotations = <<>> THEN st
  ELSE LET next == CopyAnnotation(st, Head(annotations), sd, newImageId)
       IN IF Len(next.results.errors) > Len(st.results.errors) THEN next
          ELSE CopyAnnotationsUntilFailure(next, Tail(annotations), sd,
                                           newImageId)

RECURSIVE CopyAnnotations(_, _, _, _)
\* for (const annotation of image.annotations)
CopyAnnotations(st, annotations, sd, newImageId) ==
  IF annotations = <<>> THEN st
  ELSE CopyAnnotations(CopyAnnotation(st, Head(annotations), sd, newImageId),
                       Tail(annotations), sd, newImageId)

ImageCocoId(image, sd) == image.cocoId + sd.id * ImageCocoOffset

\* tx.image.create throws when (cocoId, datasetId) is taken
CanCreateImage(imgs, image, sd) ==
  UniqueCocoId(dbImgs \cup imgs, finalDatasetId, ImageCocoId(image, sd))

\* variant: a createImageRecord that queues the copy of the file and copies
\* the annotations without creating the Image row
CreateImageRecordUnstaged(st, image, sd, finalFileName) ==
  LET st0 ==
        [st EXCEPT
           !.copied =
             IF image.filePath # ""
             THEN Append(@, [from |-> image.filePath,
                             to |-> TargetFilePath(finalDatasetId,
                                                   finalFileName)])
             ELSE @,
           !.results = NoResults]
      st1 == CopyAnnotations(st0, image.annotations, sd,
                             NextId(dbImgs \cup st.imgs))
  IN [st1 EXCEPT !.results = AddResults(st.results, st1.results)]

\* createImageRecord after a successful tx.image.create.  st is
\* [imgs, cats, anns, mappings, copied, results].
CreateImageRecord(st, image, sd, finalFileName) ==
  LET newImage ==
        [id |-> NextId(dbImgs \cup st.imgs),
         datasetId |-> finalDatasetId,
         fileName |-> finalFileName,
         cocoId |-> ImageCocoId(image, sd),
         filePath |-> IF image.filePath # ""
                      THEN TargetFilePath(finalDatasetId, finalFileName)
                      ELSE "",
         thumbnailPath |-> IF image.thumbnailPath # ""
                           THEN TargetThumbnailPath(finalDatasetId,
                                                    finalFileName)
                           ELSE "",
         source |-> image.id]
      st0 ==
        [st EXCEPT
           !.imgs = @ \cup {newImage},
           !.copied =
             IF image.filePath # ""
             THEN Append(@, [from |-> image.filePath,
                             to |-> TargetFilePath(finalDatasetId,
                                                   finalFileName)])
             ELSE @,
           !.results = NoResults]
      st1 == CopyAnnotations(st0, image.annotations, sd, newImage.id)
  IN [st1 EXCEPT !.results = AddResults(st.results, st1.results)]

----------------------------------------------------------------------------
(* Step 3: images and duplicates *)

RECURSIVE AllImageItems(_)
\* { image, dataset, annotationCount } over all source datasets
AllImageItems(sds) ==
  IF sds = <<>> THEN <<>>
  ELSE [k \in 1..Len(Head(sds).images) |->
          [image |-> Head(sds).images[k], dataset |-> Head(sds).id,
           annotationCount |-> Len(Head(sds).images[k].annotations)]]
       \o AllImageItems(Tail(sds))

\* the entries of the imageGroups Map, in insertion order
ImageGroups(sds) ==
  LET items == AllImageItems(sds)
      allNames == [k \in 1..Len(items) |-> items[k].image.fileName]
      names == InsertionOrder(allNames, Len(allNames))
  IN [k \in 1..Len(names) |->
        [fileName |-> names[k],
         items |-> SelectSeq(items,
                             LAMBDA it : it.image.fileName = names[k])]]



GroupImages ==
  /\ pc = "groupImages"
  /\ imageGroups' = ImageGroups(sourceDatasets)
  /\ pc' = (IF imageGroups' = <<>> THEN "commit" ELSE "images")
  /\ i' = 1
  /\ j' = 1
  /\ UNCHANGED progressVars
  /\ UNCHANGED <<analysis, req, response, snap, sourceDatasets, finalDatasetId,
                 storeVars, txVars, categoryVars, copiedFiles,
                 duplicateWarnings, totalAnnotationResults, copyVars>>

\* best.dataset.images.reduce((sum, img) => sum + img.annotations.length, 0)
DatasetTotalAnnotations(datasetId) ==
  LET images == SourceDataset(datasetId).images
  IN SumSeq([k \in 1..Len(images) |-> Len(images[k].annotations)])

\* variant: a callback without the tie-break on the dataset total
BetterAnnotatedByCount(best, current) ==
  IF current.annotationCount > best.annotationCount THEN current ELSE best

\* the callback of imageGroup.reduce in the keep_best_annotated branch
BetterAnnotated(best, current) ==
  IF current.annotationCount > best.annotationCount THEN current
  ELSE IF current.annotationCount = best.annotationCount
  THEN IF DatasetTotalAnnotations(current.dataset)
            > DatasetTotalAnnotations(best.dataset)
       THEN current ELSE best
  ELSE best

RECURSIVE ReduceBest(_, _)
\* imageGroup.reduce(callback) without initial value, over items[1..n]
ReduceBest(items, n) ==
  IF n = 1 THEN items[1]
  ELSE BetterAnnotated(ReduceBest(items, n - 1), items[n])

\* variant: a selection that keeps the first member under every strategy
SelectedImageFirst(group) == group.items[1]

\* variant: a selection that keeps the last member under every strategy
SelectedImageLast(group) == group.items[Len(group.items)]

\* the member of a duplicate group the non-rename strategies keep
SelectedImage(group) ==
  CASE req.handleDuplicateImages = "skip" -> group.items[1]
    [] req.handleDuplicateImages = "keep_best_annotated" ->
         ReduceBest(group.items, Len(group.items))
    [] OTHER -> group.items[Len(group.items)]

\* the source images step 5 tries to copy a thumbnail for
ThumbnailCandidates ==
  SelectSeq(AllImageItems(sourceDatasets),
            LAMBDA it : it.image.thumbnailPath # "" /\ it.image.filePath # "")

AfterCopies == IF ThumbnailCandidates = <<>> THEN "commit" ELSE "thumbnails"

AfterImages == IF copiedFiles' = <<>> THEN AfterCopies ELSE "copyFiles"

\* tx.image.findFirst({ where: { datasetId, fileName } }) finds a row
ExistsInTarget(fileName) ==
  \E r \in VisibleImgs : r.datasetId = finalDatasetId /\ r.fileName = fileName

\* variant: a warning that does not carry the size of the group
DuplicateWarningUncounted(group, selectedDataset, reason) ==
  [fileName |-> group.fileName,
   count |-> 1,
   datasets |-> <<>>,
   selectedDataset |-> selectedDataset,
   reason |-> reason]

DuplicateWarning(group, selectedDataset, reason) ==
  [fileName |-> group.fileName,
   count |-> Len(group.items),
   datasets |-> [k \in 1..Len(group.items) |->
                   SourceDataset(group.items[k].dataset).name],
   selectedDataset |-> selectedDataset,
   reason |-> reason]

TxState ==
  [imgs |-> txImgs, cats |-> txCats, anns |-> txAnns,
   mappings |-> categoryMappings, copied |-> copiedFiles,
   results |-> totalAnnotationResults]

\* one pass of the body of `for (const [fileName, imageGroup] of
\* imageGroups)`; under rename one call of createImageRecord per step
ImageStep ==
  /\ pc = "images"
  /\ i <= Len(imageGroups)
  /\ LET group == imageGroups[i]
         n == Len(group.items)
         duplicate == n > 1
         rename == duplicate /\ req.handleDuplicateImages = "rename"
         skipAll ==
           /\ duplicate
           /\ req.handleDuplicateImages = "skip"
           /\ ExistsInTarget(group.fileName)
         item == IF rename THEN group.items[j]
                 ELSE IF duplicate THEN SelectedImage(group)
                 ELSE group.items[1]
         finalFileName ==
           IF rename /\ j > 1 THEN RenamedFileName(group.fileName, j)
           ELSE group.fileName
         sd == SourceDataset(item.dataset)
         groupDone == ~rename \/ j = n
         warning ==
           CASE rename ->
                  DuplicateWarning(group, "", "All instances renamed and kept")
             [] skipAll ->
                  DuplicateWarning(group, "",
                    "All instances skipped (already exists in target)")
             [] req.handleDuplicateImages = "skip" ->
                  DuplicateWarning(group, sd.name,
                    "First instance kept, others skipped")
             [] req.handleDuplicateImages = "keep_best_annotated" ->
                  DuplicateWarning(group, sd.name,
                    "Selected from " \o sd.name \o " ("
                      \o ToString(item.annotationCount) \o " annotations)")
             [] OTHER ->
                  DuplicateWarning(group, sd.name,
                    "Last instance kept (overwrite mode)")
         st == CreateImageRecord(TxState, item.image, sd, finalFileName)
         advance ==
           /\ duplicateWarnings' =
                IF duplicate /\ groupDone
                THEN Append(duplicateWarnings, warning)
                ELSE duplicateWarnings
           /\ i' = (IF ~groupDone THEN i
                    ELSE IF i = Len(imageGroups) THEN 1 ELSE i + 1)
           /\ j' = (IF groupDone THEN 1 ELSE j + 1)
           /\ pc' = (IF groupDone /\ i = Len(imageGroups)
                     THEN AfterImages ELSE pc)
           /\ UNCHANGED <<response, txDatasets>>
     IN IF skipAll
        THEN /\ UNCHANGED <<txCats, txImgs, txAnns, categoryMappings,
                            copiedFiles, totalAnnotationResults>>
             /\ advance
        ELSE IF CanCreateImage(txImgs, item.image, sd)
        THEN /\ txImgs' = st.imgs
             /\ txCats' = st.cats
             /\ txAnns' = st.anns
             /\ categoryMappings' = st.mappings
             /\ copiedFiles' = st.copied
             /\ totalAnnotationResults' = st.results
             /\ advance
        ELSE /\ Rollback
             /\ UNCHANGED <<i, j, categoryMappings, copiedFiles,
                            duplicateWarnings, totalAnnotationResults>>
  /\ UNCHANGED progressVars
  /\ UNCHANGED <<analysis, req, snap, sourceDatasets, finalDatasetId, storeVars,
                 existingCategories, conflicts, mergeTargetCategories,
                 imageGroups, copyVars>>

----------------------------------------------------------------------------
(* Step 4: object-store copies;  Step 5: thumbnails;  commit *)

\* variant: a copy loop without the try/catch, where the throw of copyObject
\* leaves the transaction
CopyStepFatal ==
  /\ pc = "copyFiles"
  /\ i <= Len(copiedFiles)
  /\ LET copyOp == copiedFiles[i]
     IN \/ /\ copyOp.from \in objects
           /\ objects' = objects \cup {copyOp.to}
           /\ copyResults' = [copyResults EXCEPT !.success = @ + 1]
           /\ i' = (IF i = Len(copiedFiles) THEN 1 ELSE i + 1)
           /\ pc' = (IF i = Len(copiedFiles) THEN AfterCopies ELSE pc)
           /\ UNCHANGED <<response, txVars>>
        \/ /\ copyResults' = [copyResults EXCEPT !.failed = @ + 1]
           /\ Rollback
           /\ UNCHANGED <<objects, i>>
  /\ UNCHANGED progressVars
  /\ UNCHANGED <<analysis, req, snap, sourceDatasets, finalDatasetId, j, storeVars,
                 categoryVars, imageVars, thumbnailCopyResults>>

\* minioClient.copyObject either stores the object under the destination
\* key or throws; it throws at least when the source key holds no object
CopyStep ==
  /\ pc = "copyFiles"
  /\ i <= Len(copiedFiles)
  /\ LET copyOp == copiedFiles[i]
     IN \/ /\ copyOp.from \in objects
           /\ objects' = objects \cup {copyOp.to}
           /\ copyResults' = [copyResults EXCEPT !.success = @ + 1]
        \/ /\ copyResults' =
                [copyResults EXCEPT
                   !.failed = @ + 1,
                   !.errors = Append(@, [from |-> copyOp.from,
                                         to |-> copyOp.to])]
           /\ UNCHANGED objects
  /\ i' = (IF i = Len(copiedFiles) THEN 1 ELSE i + 1)
  /\ pc' = (IF i = Len(copiedFiles) THEN AfterCopies ELSE pc)
  /\ UNCHANGED progressVars
  /\ UNCHANGED <<analysis, req, response, snap, sourceDatasets, finalDatasetId, j,
                 storeVars, txVars, categoryVars, imageVars,
                 thumbnailCopyResults>>

\* correspondingCopy.to.replace(/^dataset-(\d+)\//, "dataset-$1/thumbnails/")
\* for a key `dataset-${finalDataset.id}/${finalFileName}` of this run
ThumbnailKeyOf(to) ==
  LET finalFileName ==
        CHOOSE r \in txImgs : TargetFilePath(finalDatasetId, r.fileName) = to
  IN TargetThumbnailPath(finalDatasetId, finalFileName.fileName)

ThumbnailStep ==
  /\ pc = "thumbnails"
  /\ i <= Len(ThumbnailCandidates)
  /\ LET image == ThumbnailCandidates[i].image
         copy == FindIndex([k \in 1..Len(copiedFiles) |->
                              copiedFiles[k].from = image.filePath])
     IN IF image.thumbnailPath \notin objects \/ copy = 0
        THEN UNCHANGED <<thumbnailCopyResults, objects>>
        ELSE \/ /\ objects' =
                     objects \cup {ThumbnailKeyOf(copiedFiles[copy].to)}
                /\ thumbnailCopyResults' =
                     [thumbnailCopyResults EXCEPT !.success = @ + 1]
             \/ /\ thumbnailCopyResults' =
                     [thumbnailCopyResults EXCEPT !.failed = @ + 1]
                /\ UNCHANGED objects
  /\ i' = (IF i = Len(ThumbnailCandidates) THEN 1 ELSE i + 1)
  /\ pc' = (IF i = Len(ThumbnailCandidates) THEN "commit" ELSE pc)
  /\ UNCHANGED progressVars
  /\ UNCHANGED <<analysis, req, response, snap, sourceDatasets, finalDatasetId, j,
                 storeVars, txVars, categoryVars, imageVars, copyResults>>

\* variant: a store that makes the datasets and categories of a run visible
\* and leaves out its images and annotations
CommitCategoriesOnly ==
  /\ pc = "commit"
  /\ datasets' =
       [d \in DOMAIN datasets \cup Ids(txDatasets) |->
          IF d \in DOMAIN datasets THEN datasets[d]
          ELSE (CHOOSE r \in txDatasets : r.id = d).name]
  /\ dbCats' = dbCats \cup txCats
  /\ pc' = "committed"
  /\ response' = 200
  /\ UNCHANGED progressVars
  /\ UNCHANGED <<analysis, req, snap, sourceDatasets, finalDatasetId, i, j, txVars,
                 dbImgs, dbAnns, categoryVars, imageVars, copyVars>>

\* the callback of prisma.$transaction returns: the rows become visible
Commit ==
  /\ pc = "commit"
  /\ datasets' =
       [d \in DOMAIN datasets \cup Ids(txDatasets) |->
          IF d \in DOMAIN datasets THEN datasets[d]
          ELSE (CHOOSE r \in txDatasets : r.id = d).name]
  /\ dbCats' = dbCats \cup txCats
  /\ dbImgs' = dbImgs \cup txImgs
  /\ dbAnns' = dbAnns \cup txAnns
  /\ pc' = "committed"
  /\ response' = 200
  /\ UNCHANGED progressVars
  /\ UNCHANGED <<analysis, req, snap, sourceDatasets, finalDatasetId, i, j, txVars,
                 categoryVars, imageVars, copyVars>>

(* The analyze-merge route, which the client calls before the merge *)

\* _count.annotations of a category
AnnotationCount(categoryId) ==
  Cardinality({a \in dbAnns : a.categoryId = categoryId})

\* targetDataset?.categories || [], loaded only for merge_into_existing
\* with a targetDatasetId
TargetCategories ==
  IF /\ req.mergeStrategy = "merge_into_existing"
     /\ req.targetDatasetId # 0
     /\ req.targetDatasetId \in DOMAIN datasets
  THEN SortById({c \in dbCats : c.datasetId = req.targetDatasetId})
  ELSE <<>>

\* dataset.name || "Unnamed Dataset"
DatasetNameOrUnnamed(name) == IF name = "" THEN "Unnamed Dataset" ELSE name

\* the entry of allCategories for a category
CategoryEntry(c, datasetId, datasetName) ==
  [id |-> c.id, name |-> c.name, cocoId |-> c.cocoId, datasetId |-> datasetId,
   datasetName |-> datasetName, annotationCount |-> AnnotationCount(c.id)]

RECURSIVE SourceEntries(_)
SourceEntries(sds) ==
  IF sds = <<>> THEN <<>>
  ELSE [k \in 1..Len(Head(sds).categories) |->
          CategoryEntry(Head(sds).categories[k], Head(sds).id,
                        DatasetNameOrUnnamed(Head(sds).name))]
       \o SourceEntries(Tail(sds))

\* allCategories: the categories of the target first, then those of the
\* source datasets findMany returns
AllCategories ==
  [k \in 1..Len(TargetCategories) |->
     CategoryEntry(TargetCategories[k], TargetCategories[k].datasetId,
                   "Target Dataset")]
  \o SourceEntries(LoadedInIdOrder(FoundSourceIds))

\* the element of conflict.datasets for an entry of allCategories
ConflictMember(c) ==
  [datasetId |-> c.datasetId, datasetName |-> c.datasetName,
   categoryId |-> c.id, annotationCount |-> c.annotationCount]

SuggestedAction(strategy) ==
  IF strategy = "merge_by_name" THEN "merge"
  ELSE IF strategy = "keep_separate" THEN "keep_separate"
  ELSE "rename"

\* variant: an analyzer that reports every group, also those of one member
ExactConflictsAll(all, strategy) ==
  LET allKeys == [k \in 1..Len(all) |-> ConflictKey(all[k])]
      keys == InsertionOrder(allKeys, Len(allKeys))
      group(key) == SelectSeq(all, LAMBDA c : ConflictKey(c) = key)
  IN [k \in 1..Len(keys) |->
        [categoryName |-> group(keys[k])[1].name,
         cocoId |-> group(keys[k])[1].cocoId,
         datasets |-> [m \in 1..Len(group(keys[k])) |->
                         ConflictMember(group(keys[k])[m])],
         suggestedAction |-> SuggestedAction(strategy)]]

\* conflicts: the entries of categoryMap with more than one dataset, in the
\* Map's insertion order
ExactConflicts(all, strategy) ==
  LET allKeys == [k \in 1..Len(all) |-> ConflictKey(all[k])]
      keys == InsertionOrder(allKeys, Len(allKeys))
      group(key) == SelectSeq(all, LAMBDA c : ConflictKey(c) = key)
      multi == SelectSeq(keys, LAMBDA key : Len(group(key)) > 1)
  IN [k \in 1..Len(multi) |->
        [categoryName |-> group(multi[k])[1].name,
         cocoId |-> group(multi[k])[1].cocoId,
         datasets |-> [m \in 1..Len(group(multi[k])) |->
                         ConflictMember(group(multi[k])[m])],
         suggestedAction |-> SuggestedAction(strategy)]]

\* nameConflicts: the names that more than one category carries with more
\* than one cocoId, in the insertion order of nameGroups
NameConflicts(all) ==
  LET allNames == [k \in 1..Len(all) |-> all[k].name]
      names == InsertionOrder(allNames, Len(allNames))
      group(name) == SelectSeq(all, LAMBDA c : c.name = name)
      uniqueCocoIds(name) == {c.cocoId : c \in Range(group(name))}
      multi == SelectSeq(names,
                         LAMBDA name : /\ Len(group(name)) > 1
                                       /\ Cardinality(uniqueCocoIds(name)) > 1)
  IN [k \in 1..Len(multi) |->
        [categoryName |-> multi[k],
         cocoId |-> -1,
         datasets |-> [m \in 1..Len(group(multi[k])) |->
                         ConflictMember(group(multi[k])[m])],
         suggestedAction |-> "keep_separate"]]

\* the analysis of the answer
AnalyzeMerge ==
  [totalSourceDatasets |-> Cardinality(FoundSourceIds),
   totalCategories |-> Len(AllCategories),
   exactMatches |-> Len(ExactConflicts(AllCategories, req.categoryMergeStrategy)),
   nameConflicts |-> Len(NameConflicts(AllCategories)),
   conflicts |-> ExactConflicts(AllCategories, req.categoryMergeStrategy)
                   \o NameConflicts(AllCategories)]

Analyze ==
  /\ pc = "analyze"
  /\ analysis' = AnalyzeMerge
  /\ pc' = "request"
  /\ UNCHANGED <<progressVars, req, response, snap, sourceDatasets,
                 finalDatasetId, i, j, storeVars, txVars, categoryVars,
                 imageVars, copyVars>>

----------------------------------------------------------------------------
\* the transaction does not end within its timeout (timeout: 300000), or a
\* statement of it throws for a reason of the environment: the transaction
\* rolls back wherever the handler is and the handler answers 500
TransactionTimeout ==
  /\ pc \in {"orphans", "conflicts", "firstPass", "secondPass", "groupImages",
              "images", "copyFiles", "thumbnails", "commit"}
  /\ Rollback
  /\ UNCHANGED progressVars
  /\ UNCHANGED <<analysis, req, snap, sourceDatasets, finalDatasetId, i, j, storeVars,
                 categoryVars, imageVars, copyVars>>

\* the statistics of the answer of a run that returns from the transaction
Statistics ==
  [totalSourceDatasets |-> Len(sourceDatasets),
   totalImagesProcessed |->
     SumSeq([k \in 1..Len(sourceDatasets) |-> Len(sourceDatasets[k].images)]),
   totalCategoriesProcessed |->
     SumSeq([k \in 1..Len(sourceDatasets) |->
               Len(sourceDatasets[k].categories)]),
   totalAnnotationsProcessed |->
     SumSeq([k \in 1..Len(sourceDatasets) |->
               DatasetTotalAnnotations(sourceDatasets[k].id)]),
   filesCopied |-> copyResults.success,
   filesCopyFailed |-> copyResults.failed,
   copyErrors |-> copyResults.errors,
   thumbnailsCopied |-> thumbnailCopyResults.success,
   thumbnailsCopyFailed |-> thumbnailCopyResults.failed,
   duplicateImagesFound |-> Len(duplicateWarnings),
   annotationsCopied |-> totalAnnotationResults.success,
   annotationsCopyFailed |-> totalAnnotationResults.failed,
   annotationsSkippedNoCategory |-> totalAnnotationResults.skippedNoCategory,
   annotationErrors |-> totalAnnotationResults.errors]

----------------------------------------------------------------------------
(* The explored record stores and requests *)

\* Datasets 1, 2 and 3 are the possible sources, dataset 4 is a dataset
\* that is no source.  Category rows 11..16 are the listed categories of
\* datasets 1..3, rows 17 and 18 are rows of datasets 1 and 2 that the
\* loaded category list misses, rows 41 and 42 belong to dataset 4, and no
\* row has the id 2.
SourceFilePath(d, fileName) == TargetFilePath(d, fileName)

SourceThumbnailPath(d, fileName) == TargetThumbnailPath(d, fileName)

\* image number k of dataset d, with one annotation per element of catIds
SourceImage(d, k, fileName, hasFile, hasThumbnail, catIds) ==
  LoadedImage(d * 100 + k, fileName, k,
              IF hasFile THEN SourceFilePath(d, fileName) ELSE "",
              IF hasThumbnail THEN SourceThumbnailPath(d, fileName) ELSE "",
              [m \in 1..Len(catIds) |->
                 LoadedAnnotation((d * 100 + k) * 10 + m, k * 10 + m,
                                  catIds[m])])

Request(sources, strategy, target, name, categories, duplicates, decisions) ==
  [sourceDatasetIds |-> sources,
   mergeStrategy |-> strategy,
   targetDatasetId |-> target,
   newDatasetName |-> name,
   categoryMergeStrategy |-> categories,
   handleDuplicateImages |-> duplicates,
   categoryMappingDecisions |-> decisions]

Scenario(names, cats, images, unlisted, targetCats, targetImgs, request) ==
  [names |-> names, cats |-> cats, images |-> images, unlisted |-> unlisted,
   targetCats |-> targetCats, targetImgs |-> targetImgs, targetAnns |-> {},
   request |-> request]

CategoryStrategies == {"keep_separate", "merge_by_name", "prefix_with_dataset"}

DuplicateStrategies == {"skip", "rename", "overwrite", "keep_best_annotated"}

SeqsUpTo(S, n) == UNION {[1..m -> S] : m \in 0..n}

Repeat(x, n) == [m \in 1..n |-> x]

\* the decisions of the explored requests
DecisionChoices ==
  {Decision(0, a, n, 0) : a \in {"merge", "rename"}, n \in {"", "b"}}
  \cup {Decision(ix, a, "", 0) : ix \in {0, 1}, a \in {"merge", "keep_separate"}}

NamePairs == {<<"A", "A", "C">>, <<"A", "B", "C">>}

Cats1 ==
  {<<Category(11, 1, "a", 1)>>,
   <<Category(11, 1, "a", 1), Category(12, 1, "b", 2)>>}

Cats2 ==
  {<<Category(13, 2, "a", 1)>>,
   <<Category(13, 2, "a", 2)>>,
   <<Category(13, 2, "a", 1), Category(14, 2, "b", 2)>>,
   <<Category(13, 2, "b", 2), Category(14, 2, "a", 1)>>}

\* one annotated image per source, without binary asset
PlainImages ==
  <<<<SourceImage(1, 1, "f.jpg", FALSE, FALSE, <<11>>)>>,
    <<SourceImage(2, 1, "g.jpg", FALSE, FALSE, <<13>>)>>,
    <<>>>>

\* categories and decisions, merged into a new dataset
CategoryScenarios ==
  {Scenario(names, <<c1, c2, <<>>>>, PlainImages, {}, {}, {},
            Request(<<1, 2>>, "create_new", 0, "M", strategy, "rename", ds)) :
     names \in NamePairs, c1 \in Cats1, c2 \in Cats2,
     strategy \in CategoryStrategies,
     ds \in SeqsUpTo(DecisionChoices, MaxDecisions)}

\* the categories the target of merge_into_existing holds beforehand
TargetCategorySets ==
  {{},
   {Category(41, 4, "a", 1)},
   {Category(41, 4, "z", 1)},
   {Category(41, 4, "b", 2)},
   {Category(41, 4, "A_a", 10001)},
   {Category(41, 4, "a", 3), Category(42, 4, "a", 4)}}

TargetDecisions ==
  {<<>>,
   <<Decision(0, "merge", "", 0)>>,
   <<Decision(0, "merge", "b", 0)>>,
   <<Decision(0, "rename", "", 0)>>,
   <<Decision(0, "rename", "", 7)>>,
   <<Decision(0, "keep_separate", "", 0)>>}

\* merges into an existing dataset: dataset 4, or the source dataset 1
ExistingTargetScenarios ==
  {Scenario(names, <<c1, c2, <<>>>>, PlainImages, {}, tc, {},
            Request(<<1, 2>>, "merge_into_existing", 4, "", strategy,
                    "rename", ds)) :
     names \in NamePairs, c1 \in Cats1,
     c2 \in {<<Category(13, 2, "a", 1)>>,
             <<Category(13, 2, "a", 1), Category(14, 2, "b", 2)>>},
     tc \in TargetCategorySets, strategy \in CategoryStrategies,
     ds \in TargetDecisions}
  \cup
  {Scenario(names, <<c1, <<Category(13, 2, "a", 1)>>, <<>>>>, PlainImages,
            {}, {}, {},
            Request(<<1, 2>>, "merge_into_existing", 1, "", strategy,
                    "rename", ds)) :
     names \in NamePairs, c1 \in Cats1, strategy \in CategoryStrategies,
     ds \in TargetDecisions}

\* the category ids the annotations of the image of dataset 1 reference:
\* listed (11), missed by the loaded list (17), owned by dataset 2 (13) or
\* in no row (2)
OrphanRefs1 == {<<11>>, <<17>>, <<13>>, <<2>>, <<2, 2>>, <<17, 2>>, <<2, 11>>}

OrphanRefs2 == {<<13>>, <<18>>, <<2>>}

UnlistedCategories == {Category(17, 1, "c", 3), Category(18, 2, "c", 3)}

\* annotations whose category is not in the loaded category list
OrphanScenarios ==
  {Scenario(names, <<c1, <<Category(13, 2, "a", 1)>>, <<>>>>,
            <<<<SourceImage(1, 1, "f.jpg", FALSE, FALSE, r1)>>,
              <<SourceImage(2, 1, dup[2], FALSE, FALSE, r2)>>,
              <<>>>>,
            UnlistedCategories, {}, {},
            Request(<<1, 2>>, "create_new", 0, "M", strategy, dup[1], ds)) :
     names \in NamePairs, c1 \in Cats1, r1 \in OrphanRefs1,
     r2 \in OrphanRefs2, strategy \in CategoryStrategies,
     dup \in {<<"rename", "f.jpg">>, <<"skip", "f.jpg">>,
              <<"rename", "g.jpg">>},
     ds \in {<<>>, <<Decision(0, "merge", "", 0)>>}}

\* the images of source dataset d: "f.jpg", and possibly "g.jpg" without
\* binary asset; every annotation references category cat
ImageLists(d, cat, hasFile, counts) ==
  {<<SourceImage(d, 1, "f.jpg", hasFile, FALSE, Repeat(cat, c))>> :
     c \in 0..MaxAnns}
  \cup
  {<<SourceImage(d, 1, "f.jpg", hasFile, FALSE, Repeat(cat, c)),
     SourceImage(d, 2, "g.jpg", FALSE, FALSE, Repeat(cat, e))>> :
     c \in 0..MaxAnns, e \in counts}

OneCategoryEach ==
  <<<<Category(11, 1, "a", 1)>>, <<Category(13, 2, "a", 1)>>,
    <<Category(15, 3, "a", 1)>>>>

\* three sources whose images share file names, under every strategy
DuplicateScenarios ==
  {Scenario(<<"A", "B", "C">>, OneCategoryEach, <<i1, i2, i3>>, {}, {}, {},
            Request(<<1, 2, 3>>, "create_new", 0, "M", "merge_by_name",
                    dup, <<>>)) :
     i1 \in ImageLists(1, 11, TRUE, 0..MaxAnns),
     i2 \in ImageLists(2, 13, FALSE, {0}),
     i3 \in ImageLists(3, 15, TRUE, 0..MaxAnns),
     dup \in DuplicateStrategies}

TargetImage(k, fileName, cocoId) ==
  [id |-> 400 + k, datasetId |-> 4, fileName |-> fileName, cocoId |-> cocoId,
   filePath |-> TargetFilePath(4, fileName), thumbnailPath |-> "",
   source |-> 0]

TargetAnnotation(k, imageId, categoryId, cocoId) ==
  [id |-> 4000 + k, datasetId |-> 4, imageId |-> imageId,
   categoryId |-> categoryId, cocoId |-> cocoId, source |-> 0]

\* what the target of merge_into_existing holds beforehand: nothing, an
\* image under each file name, an image with the cocoId the merge gives
\* to image 1 of dataset 1, and an annotation with the cocoId the merge
\* gives to the first annotation of that image
TargetStores ==
  {[cats |-> {}, imgs |-> {}, anns |-> {}],
   [cats |-> {}, imgs |-> {TargetImage(1, "f.jpg", 1)}, anns |-> {}],
   [cats |-> {}, imgs |-> {TargetImage(1, "f_2.jpg", 1)}, anns |-> {}],
   [cats |-> {}, imgs |-> {TargetImage(1, "h", 1 + ImageCocoOffset)},
    anns |-> {}],
   [cats |-> {Category(41, 4, "a", 1)},
    imgs |-> {TargetImage(1, "g.jpg", 1)},
    anns |-> {TargetAnnotation(1, 401, 41, 11 + AnnotationCocoOffset)}]}

\* two sources with thumbnails merged into dataset 4
ExistingImagesScenarios ==
  {[Scenario(<<"A", "B", "C">>, OneCategoryEach,
             <<<<SourceImage(1, 1, "f.jpg", TRUE, thumb, <<11>>)>>,
               <<SourceImage(2, 1, name2, TRUE, TRUE, <<13, 13>>)>>,
               <<>>>>,
             {}, t.cats, t.imgs,
             Request(<<1, 2>>, "merge_into_existing", 4, "", "merge_by_name",
                     dup, <<>>))
      EXCEPT !.targetAnns = t.anns] :
     thumb \in BOOLEAN, name2 \in {"f.jpg", "f_2.jpg"},
     t \in TargetStores, dup \in DuplicateStrategies}

\* two sources whose images share a file name without extension
ExtensionlessScenarios ==
  {Scenario(<<"A", "B", "C">>, OneCategoryEach,
            <<<<SourceImage(1, 1, "h", TRUE, FALSE, <<11>>)>>,
              <<SourceImage(2, 1, "h", TRUE, FALSE, <<13>>)>>,
              <<>>>>,
            {}, {}, {},
            Request(<<1, 2>>, "create_new", 0, "M", "merge_by_name", dup,
                    <<>>)) :
     dup \in DuplicateStrategies}

\* two sources whose images share the file name f.jpg and a third source
\* whose image has the name rename generates for the second of them
GeneratedNameScenarios ==
  {Scenario(<<"A", "B", "C">>, OneCategoryEach,
            <<<<SourceImage(1, 1, "f.jpg", TRUE, FALSE, <<11>>)>>,
              <<SourceImage(2, 1, "f.jpg", TRUE, FALSE, <<13>>)>>,
              <<SourceImage(3, 1, "f_2.jpg", TRUE, FALSE, <<15>>)>>>>,
            {}, {}, {},
            Request(<<1, 2, 3>>, "create_new", 0, "M", "merge_by_name", dup,
                    <<>>)) :
     dup \in DuplicateStrategies}

\* requests the handler answers with 400 or 404
RejectedRequests ==
  {Request(<<1>>, "create_new", 0, "M", "keep_separate", "skip", <<>>),
   Request(<<>>, "create_new", 0, "M", "keep_separate", "skip", <<>>),
   Request(<<1, 2>>, "create_new", 0, "", "keep_separate", "skip", <<>>),
   Request(<<1, 2>>, "merge_into_existing", 0, "", "keep_separate", "skip",
           <<>>),
   Request(<<1, 2>>, "merge_into_existing", 9, "", "keep_separate", "skip",
           <<>>),
   Request(<<1, 9>>, "create_new", 0, "M", "keep_separate", "skip", <<>>),
   Request(<<1, 1>>, "create_new", 0, "M", "keep_separate", "skip", <<>>),
   Request(<<1, 2>>, "create_new", 0, "M", "keep_separate", "skip",
           <<Decision(0 - 1, "merge", "", 0)>>),
   Request(<<1, 2>>, "create_new", 0, "M", "keep_separate", "skip",
           <<Decision(0, "delete", "", 0)>>)}

RejectedScenarios ==
  {Scenario(<<"A", "B", "C">>, OneCategoryEach, PlainImages, {}, {}, {}, r) :
     r \in RejectedRequests}

Scenarios ==
  CategoryScenarios \cup ExistingTargetScenarios \cup OrphanScenarios
    \cup DuplicateScenarios \cup ExistingImagesScenarios
    \cup ExtensionlessScenarios
    \cup GeneratedNameScenarios
    \cup RejectedScenarios

RECURSIVE ImageRows(_, _)
\* the Image rows of the loaded images of dataset d
ImageRows(d, images) ==
  IF images = <<>> THEN {}
  ELSE {[id |-> Head(images).id, datasetId |-> d,
         fileName |-> Head(images).fileName, cocoId |-> Head(images).cocoId,
         filePath |-> Head(images).filePath,
         thumbnailPath |-> Head(images).thumbnailPath, source |-> 0]}
       \cup ImageRows(d, Tail(images))

RECURSIVE AnnotationRows(_, _)
\* the Annotation rows of the loaded images of dataset d
AnnotationRows(d, images) ==
  IF images = <<>> THEN {}
  ELSE {[id |-> a.id, datasetId |-> d, imageId |-> Head(images).id,
         categoryId |-> a.categoryId, cocoId |-> a.cocoId, source |-> 0] :
          a \in Range(Head(images).annotations)}
       \cup AnnotationRows(d, Tail(images))

----------------------------------------------------------------------------
(* The progress sink (lib/minio.ts) and its read path (merge-progress)   *)

\* the merge-run ids of the runs that report progress
MergeIds == {"m1", "m2"}

\* the largest precomputed total of a run
MaxTotal == 3

\* searchParams.get("mergeId"): a run id, or none
PolledIds == MergeIds \cup {""}

\* const existing = mergeProgress.get(mergeId) || { total: 0, current: 0, ... }
ExistingOrFresh(mergeId) ==
  IF mergeId \in DOMAIN mergeProgress THEN mergeProgress[mergeId]
  ELSE [total |-> 0, current |-> 0, currentOperation |-> "",
        errors |-> <<>>, completed |-> FALSE, success |-> FALSE]

\* the map after mergeProgress.set(mergeId, entry)
SetProgress(mergeId, entry) ==
  [m \in DOMAIN mergeProgress \cup {mergeId} |->
     IF m = mergeId THEN entry ELSE mergeProgress[m]]

\* initializeMergeProgress: a fresh entry with the given total
initializeMergeProgress(mergeId, total) ==
  SetProgress(mergeId,
    [total |-> total, current |-> 0,
     currentOperation |-> "Initializing merge...", errors |-> <<>>,
     completed |-> FALSE, success |-> FALSE])

\* a slip of updateMergeProgress: the two numbers stored the wrong way round
updateMergeProgressSwapped(mergeId, current, total, currentOperation, error) ==
  SetProgress(mergeId,
    [ExistingOrFresh(mergeId) EXCEPT
       !.total = current,
       !.current = total,
       !.currentOperation = currentOperation,
       !.errors = IF error # "" THEN Append(@, error) ELSE @])

\* updateMergeProgress: stores total, current and the operation as given and
\* appends the error, when there is one
updateMergeProgress(mergeId, current, total, currentOperation, error) ==
  SetProgress(mergeId,
    [ExistingOrFresh(mergeId) EXCEPT
       !.total = total,
       !.current = current,
       !.currentOperation = currentOperation,
       !.errors = IF error # "" THEN Append(@, error) ELSE @])

\* completeMergeProgress: marks the entry, when there is one
completeMergeProgress(mergeId, success) ==
  IF mergeId \in DOMAIN mergeProgress
  THEN SetProgress(mergeId,
         [mergeProgress[mergeId] EXCEPT
            !.completed = TRUE, !.success = success])
  ELSE mergeProgress

\* Math.round((progress.current / progress.total) * 100), or 0
Percentage(progress) ==
  IF progress.total > 0
  THEN (200 * progress.current + progress.total) \div (2 * progress.total)
  ELSE 0

\* an answer of GET merge-progress without a body of progress
NoAnswer(status) ==
  [status |-> status, total |-> 0, current |-> 0, percentage |-> 0,
   completed |-> FALSE]

\* GET merge-progress?mergeId=...
GetProgress(mergeId) ==
  IF mergeId = "" THEN NoAnswer(400)
  ELSE IF mergeId \notin DOMAIN mergeProgress THEN NoAnswer(404)
  ELSE [status |-> 200,
        total |-> mergeProgress[mergeId].total,
        current |-> mergeProgress[mergeId].current,
        percentage |-> Percentage(mergeProgress[mergeId]),
        completed |-> mergeProgress[mergeId].completed]

\* a run that has not started
IdleRun == [at |-> "idle", total |-> 0, done |-> 0]

\* no run has started and nothing was polled
ProgressIdle ==
  /\ mergeProgress = <<>>
  /\ runs = [m \in MergeIds |-> IdleRun]
  /\ polled = [m \in PolledIds |-> NoAnswer(0)]

\* a merge run starts: total is computed before work begins and the entry of
\* the run is initialized with it
StartRun(mergeId) ==
  /\ runs[mergeId].at = "idle"
  /\ \E total \in 0..MaxTotal :
       /\ mergeProgress' = initializeMergeProgress(mergeId, total)
       /\ runs' = [runs EXCEPT
                     ![mergeId] = [at |-> "running", total |-> total,
                                   done |-> 0]]
  /\ UNCHANGED <<polled, mergeVars>>

\* a unit of work of the run is done (with a warning or without): the run
\* reports the number of units done so far and its total
ReportProgress(mergeId) ==
  /\ runs[mergeId].at = "running"
  /\ runs[mergeId].done < runs[mergeId].total
  /\ \E error \in {"", "warning"} :
       mergeProgress' =
         updateMergeProgress(mergeId, runs[mergeId].done + 1,
                             runs[mergeId].total, "Processing", error)
  /\ runs' = [runs EXCEPT ![mergeId].done = @ + 1]
  /\ UNCHANGED <<polled, mergeVars>>

\* the run ends, with success after its last unit or with a failure at any
\* point: the entry is marked and its clean-up timer is armed
CompleteRun(mergeId) ==
  /\ runs[mergeId].at = "running"
  /\ \E success \in BOOLEAN :
       /\ success => runs[mergeId].done = runs[mergeId].total
       /\ mergeProgress' = completeMergeProgress(mergeId, success)
  /\ runs' = [runs EXCEPT ![mergeId].at = "completed"]
  /\ UNCHANGED <<polled, mergeVars>>

\* cleanupMergeProgress: five minutes after the end of the run the timer
\* deletes the entry
cleanupMergeProgress(mergeId) ==
  /\ runs[mergeId].at = "completed"
  /\ mergeProgress' =
       [m \in DOMAIN mergeProgress \ {mergeId} |-> mergeProgress[m]]
  /\ runs' = [runs EXCEPT ![mergeId].at = "expired"]
  /\ UNCHANGED <<polled, mergeVars>>

\* the client polls the progress of a run
Poll(mergeId) ==
  /\ polled' = [polled EXCEPT ![mergeId] = GetProgress(mergeId)]
  /\ UNCHANGED <<mergeProgress, runs, mergeVars>>

----------------------------------------------------------------------------
InitScenario(sc) ==
  /\ pc = "analyze"
  /\ analysis = <<>>
  /\ req = sc.request
  /\ response = 0
  /\ datasets = [d \in 1..4 |-> IF d = 4 THEN "T" ELSE sc.names[d]]
  /\ dbCats = UNION {Range(sc.cats[d]) : d \in 1..3}
                \cup sc.unlisted \cup sc.targetCats
  /\ dbImgs = UNION {ImageRows(d, sc.images[d]) : d \in 1..3}
                \cup sc.targetImgs
  /\ dbAnns = {a \in UNION {AnnotationRows(d, sc.images[d]) : d \in 1..3} :
                 a.categoryId \in Ids(dbCats)}
                \cup sc.targetAnns
  /\ snap = [d \in 1..3 |->
               LoadedDataset(d, sc.names[d], sc.cats[d], sc.images[d])]
  /\ objects =
       UNION {{im.filePath, im.thumbnailPath} \ {""} :
                im \in UNION {Range(sc.images[d]) : d \in 1..3}}
  /\ sourceDatasets = <<>>
  /\ finalDatasetId = 0
  /\ txDatasets = {}
  /\ txCats = {}
  /\ txImgs = {}
  /\ txAnns = {}
  /\ existingCategories = <<>>
  /\ conflicts = <<>>
  /\ mergeTargetCategories = <<>>
  /\ categoryMappings = <<>>
  /\ imageGroups = <<>>
  /\ copiedFiles = <<>>
  /\ duplicateWarnings = <<>>
  /\ totalAnnotationResults = NoResults
  /\ copyResults = [success |-> 0, failed |-> 0, errors |-> <<>>]
  /\ thumbnailCopyResults = [success |-> 0, failed |-> 0]
  /\ i = 1
  /\ j = 1
  /\ ProgressIdle

Init == \E sc \in Scenarios : InitScenario(sc)

Next ==
  \/ Analyze
  \/ Validate
  \/ Load
  \/ BeginTransaction
  \/ OrphanStep
  \/ DetectConflicts
  \/ FirstPassStep
  \/ SecondPassStep
  \/ GroupImages
  \/ ImageStep
  \/ CopyStep
  \/ ThumbnailStep
  \/ TransactionTimeout
  \/ Commit

Spec == Init /\ [][Next]_vars

\* the steps of the merge runs that report progress and of their client
StartRuns == \E mergeId \in MergeIds : StartRun(mergeId)

ReportsProgress == \E mergeId \in MergeIds : ReportProgress(mergeId)

CompleteRuns == \E mergeId \in MergeIds : CompleteRun(mergeId)

CleanupRuns == \E mergeId \in MergeIds : cleanupMergeProgress(mergeId)

Polls == \E mergeId \in PolledIds : Poll(mergeId)

ProgressNext ==
  \/ StartRuns
  \/ ReportsProgress
  \/ CompleteRuns
  \/ CleanupRuns
  \/ Polls

\* the progress sink on its own, beside a merge that has not been requested
ProgressInit == InitScenario(CHOOSE sc \in ExtensionlessScenarios : TRUE)

ProgressSpec == ProgressInit /\ [][ProgressNext]_vars

----------------------------------------------------------------------------
(* Vocabulary of the properties *)

\* category resolution (both passes) is over and the run has not failed
Resolved ==
  pc \in {"groupImages", "images", "copyFiles", "thumbnails", "commit",
          "committed"}

Committed == pc = "committed"

\* the categories of the output dataset the open transaction sees
TargetCats == {c \in VisibleCats : c.datasetId = finalDatasetId}

\* the output dataset's rows that were there before the run
OldTargetCats == {c \in dbCats \ txCats : c.datasetId = finalDatasetId}

OldTargetImgs == {r \in dbImgs \ txImgs : r.datasetId = finalDatasetId}

MappedTo(datasetId, categoryId) ==
  MappingGet(categoryMappings, MappingKey(datasetId, categoryId))

\* the target ids the members of a conflict are mapped to (0: unmapped)
MemberTargets(conflict) ==
  {MappedTo(it.dataset, it.category.id) : it \in Range(conflict.items)}

\* the categories the run created for a conflict: its cached merge target
\* and the targets of its members
CreatedFor(conflict) ==
  {c \in txCats :
     \/ c.id \in MemberTargets(conflict)
     \/ /\ conflict.index \in DOMAIN mergeTargetCategories
        /\ c.id = mergeTargetCategories[conflict.index]}

SingleTarget(conflict) ==
  /\ Cardinality(MemberTargets(conflict)) = 1
  /\ 0 \notin MemberTargets(conflict)
  /\ Cardinality(CreatedFor(conflict)) <= 1

HasMergeDecision(index) ==
  \E k \in 1..Len(req.categoryMappingDecisions) :
    /\ req.categoryMappingDecisions[k].conflictIndex = index
    /\ req.categoryMappingDecisions[k].action = "merge"

\* the last decision of the request for the index is a merge
LastDecisionIsMerge(index) ==
  \E k \in 1..Len(req.categoryMappingDecisions) :
    /\ req.categoryMappingDecisions[k].conflictIndex = index
    /\ req.categoryMappingDecisions[k].action = "merge"
    /\ \A m \in (k + 1)..Len(req.categoryMappingDecisions) :
         req.categoryMappingDecisions[m].conflictIndex # index

ListedIds(sd) == {sd.categories[k].id : k \in 1..Len(sd.categories)}

ReferencedIds(sd) == Range(AnnotationCategoryIds(sd.images))

\* the key of the pair holds the id of a category of the output dataset
MappedIntoTarget(sd, id) ==
  /\ MappingKey(sd.id, id) \in DOMAIN categoryMappings
  /\ \E c \in TargetCats : c.id = categoryMappings[MappingKey(sd.id, id)]

\* the source image has a target image made from it
Survives(image) == \E r \in txImgs : r.source = image.id

MadeFrom(image) == {r \in txImgs : r.source = image.id}

\* the copies of a source annotation on the target images made from image
CopiesOf(annotation, image) ==
  {t \in txAnns :
     t.source = annotation.id /\ t.imageId \in Ids(MadeFrom(image))}

\* the run reported the annotation as skipped or failed
Reported(annotation) ==
  \E k \in 1..Len(totalAnnotationResults.errors) :
    totalAnnotationResults.errors[k].annotation = annotation.id

PlaceholderNames ==
  {MissingName(datasets[d], id) : d \in DOMAIN datasets, id \in 0..20}

----------------------------------------------------------------------------
(* Properties of category resolution *)

\* C1 as stated: after category resolution, every conflict that has some
\* decision with action merge has all its members mapped to one target
\* category, and at most one category was created for it.
C1_AnyMergeDecisionSingleTarget ==
  Resolved =>
    \A c \in Range(conflicts) : HasMergeDecision(c.index) => SingleTarget(c)

\* C1: after category resolution, every conflict whose last decision in the
\* request has action merge has all its members, whatever their number and
\* their datasets, mapped to one and the same target category, and at most
\* one category was created for it.
C1_SingleMergeTarget ==
  Resolved =>
    \A c \in Range(conflicts) : LastDecisionIsMerge(c.index) => SingleTarget(c)

\* a committed run with two decisions for one conflict, the last one a
\* merge, whose members of two datasets share a created target
C1_Witness ==
  /\ Committed
  /\ \E c \in Range(conflicts) :
       /\ LastDecisionIsMerge(c.index)
       /\ \E k \in 1..Len(req.categoryMappingDecisions) :
            /\ req.categoryMappingDecisions[k].conflictIndex = c.index
            /\ req.categoryMappingDecisions[k].action # "merge"
       /\ Cardinality({it.dataset : it \in Range(c.items)}) > 1
       /\ Cardinality(CreatedFor(c)) = 1
       /\ SingleTarget(c)

\* C2 as stated: when category resolution finishes the map holds a category
\* of the output dataset for every pair that is in a source dataset's
\* category list or referenced by one of its annotations.
C2_TotalOverReferenced ==
  Resolved =>
    \A sd \in Range(sourceDatasets) :
      \A id \in ListedIds(sd) \cup ReferencedIds(sd) : MappedIntoTarget(sd, id)

\* C2: when category resolution finishes the map holds a category of the
\* output dataset for every pair that is in a source dataset's category list
\* or is referenced by one of its annotations and found in the record store;
\* a referenced id that is in no row of the record store has no entry then.
C2_TotalOverRecordedCategories ==
  /\ Resolved =>
       \A sd \in Range(sourceDatasets) :
         \A id \in ListedIds(sd) \cup ReferencedIds(sd) :
           (id \in ListedIds(sd) \/ id \in Ids(dbCats \ txCats))
             => MappedIntoTarget(sd, id)
  /\ pc = "groupImages" =>
       \A sd \in Range(sourceDatasets) :
         \A id \in ReferencedIds(sd) \ Ids(dbCats) :
           MappingKey(sd.id, id) \notin DOMAIN categoryMappings

\* resolution has finished for a dataset one of whose annotations references
\* a category the loaded list misses and the record store holds, and another
\* of whose annotations references an id that is in no row
C2_Witness ==
  /\ pc = "groupImages"
  /\ \E sd \in Range(sourceDatasets) :
       /\ \E id \in ReferencedIds(sd) :
            /\ id \notin ListedIds(snap[sd.id])
            /\ id \in Ids(dbCats)
            /\ MappedIntoTarget(sd, id)
       /\ \E id \in ReferencedIds(sd) :
            /\ id \notin Ids(dbCats)
            /\ MappingKey(sd.id, id) \notin DOMAIN categoryMappings

\* C3 as stated: after a merge that commits, every annotation the merge
\* created references a category and an image of the target dataset, and
\* none references a category or an image of a source dataset.
C3_AnnotationsReferenceTargetOnly ==
  Committed =>
    \A a \in txAnns :
      /\ \E c \in dbCats : c.id = a.categoryId /\ c.datasetId = finalDatasetId
      /\ \E r \in dbImgs : r.id = a.imageId /\ r.datasetId = finalDatasetId
      /\ ~\E c \in dbCats :
            c.id = a.categoryId /\ c.datasetId \in Range(req.sourceDatasetIds)
      /\ ~\E r \in dbImgs :
            r.id = a.imageId /\ r.datasetId \in Range(req.sourceDatasetIds)

\* C4: after a merge that commits, no two categories of the target dataset,
\* old or created by the merge, have the same cocoId.
C4_UniqueCocoIds ==
  Committed =>
    \A c1, c2 \in dbCats :
      (/\ c1.datasetId = finalDatasetId
       /\ c2.datasetId = finalDatasetId
       /\ c1.cocoId = c2.cocoId) => c1 = c2

\* a committed merge into a dataset that held a category, with two
\* categories created
C4_Witness ==
  /\ Committed
  /\ OldTargetCats # {}
  /\ Cardinality(txCats) >= 2

\* what a step of the two passes does about names
ReusesByName ==
  pc \in {"firstPass", "secondPass"} =>
    /\ Cardinality(txCats' \ txCats) <= 1
    /\ \A c \in txCats' \ txCats : ~\E e \in TargetCats : e.name = c.name
    /\ (pc = "secondPass" /\ pc' # "failed") =>
         LET item == AllItems(sourceDatasets)[i]
             sd == SourceDataset(item.dataset)
             key == MappingKey(sd.id, item.category.id)
             X == TargetSpec(item.category, sd).name
         IN (/\ ~IsMergeDecided(item.category)
             /\ \E e \in TargetCats : e.name = X)
            => /\ txCats' = txCats
               /\ \E e \in TargetCats :
                    e.name = X /\ categoryMappings'[key] = e.id

\* C5: a step of the two passes creates at most one category and never one
\* whose name a category of the output dataset (old or created earlier in
\* the run) already has; when the name a decision or the default strategy
\* resolves a source category to exists there, the category is mapped to a
\* category of that name.
C5_ReuseByName == [][ReusesByName]_vars

\* resolution under the default strategy has created a category and has
\* mapped a source category to a category the output dataset held before,
\* without creating a category of that name
C5_Witness ==
  /\ Resolved
  /\ req.categoryMappingDecisions = <<>>
  /\ txCats # {}
  /\ \E e \in OldTargetCats :
       /\ \E key \in DOMAIN categoryMappings : categoryMappings[key] = e.id
       /\ ~\E c \in txCats : c.name = e.name
       /\ Cardinality({c \in TargetCats : c.name = e.name}) = 1

----------------------------------------------------------------------------
(* Properties of orphaned references *)

\* the annotation's category is missing from the loaded category list of
\* its dataset and is a row of the record store attached to that dataset
Recoverable(sd, annotation) ==
  /\ annotation.categoryId \notin ListedIds(snap[sd.id])
  /\ \E c \in dbCats \ txCats :
       c.id = annotation.categoryId /\ c.datasetId = sd.id

\* the annotation's category is in no row of the record store
TrulyMissing(annotation) == annotation.categoryId \notin Ids(dbCats \ txCats)

\* the target category is the one the second pass gives the source category
NormallyResolved(sd, categoryId, targetId) ==
  \E c \in Range(sd.categories) :
    /\ c.id = categoryId
    /\ IF IsMergeDecided(c)
       THEN targetId = MergeTargetOf(c)
       ELSE \E t \in TargetCats :
              t.id = targetId /\ t.name = TargetSpec(c, sd).name
    /\ \E t \in TargetCats : t.id = targetId /\ t.name \notin PlaceholderNames

C7_MissingCategoryPlaceholder ==
  Committed =>
    \A sd \in Range(sourceDatasets) :
      \A im \in Range(sd.images) :
        \A a \in Range(im.annotations) :
          (TrulyMissing(a) /\ Survives(im)) =>
            /\ Cardinality({c \in txCats :
                              /\ c.name = MissingName(sd.name, a.categoryId)
                              /\ c.id = MappedTo(sd.id, a.categoryId)}) = 1
            /\ \E t \in CopiesOf(a, im) :
                 t.categoryId = MappedTo(sd.id, a.categoryId)

----------------------------------------------------------------------------
(* Properties of duplicate resolution *)

Members(group) == {group.items[k].image : k \in 1..Len(group.items)}

Duplicated(group) == Len(group.items) > 1

\* the source image has left nothing in the run: no image record, no
\* queued copy and no annotation
ContributesNothing(image) ==
  /\ ~Survives(image)
  /\ \A a \in Range(image.annotations) : ~\E t \in txAnns : t.source = a.id
  /\ image.filePath # "" =>
       ~\E k \in 1..Len(copiedFiles) : copiedFiles[k].from = image.filePath

\* every annotation of the source image is on the target image made from it
FullyCopied(image) ==
  \A a \in Range(image.annotations) : CopiesOf(a, image) # {}

C9_RenameKeepsAll ==
  (Committed /\ req.handleDuplicateImages = "rename") =>
    \A g \in Range(imageGroups) :
      Duplicated(g) =>
        LET made == UNION {MadeFrom(im) : im \in Members(g)}
        IN /\ Cardinality(made) = Len(g.items)
           /\ \A im \in Members(g) : Cardinality(MadeFrom(im)) = 1
           /\ \A r1, r2 \in made : r1.fileName = r2.fileName => r1 = r2
           /\ \A im \in Members(g) : FullyCopied(im)

\* the member of a group counted from 1, its annotation count and the total
\* of its dataset
CountOf(g, k) == Len(g.items[k].image.annotations)

TotalOf(g, k) == DatasetTotalAnnotations(g.items[k].dataset)

SurvivorsOf(g) == {k \in 1..Len(g.items) : Survives(g.items[k].image)}

AnnotationsOf(g) ==
  {t \in txAnns :
     \E im \in Members(g) : \E a \in Range(im.annotations) : t.source = a.id}

\* C11: with overwrite, after a merge that commits, exactly one target image
\* was created for each group of n > 1 images; it is made from the last
\* member of the group and every annotation created for the group is a copy
\* of an annotation of that member on that image.
C11_OverwriteKeepsLast ==
  (Committed /\ req.handleDuplicateImages = "overwrite") =>
    \A g \in Range(imageGroups) :
      Duplicated(g) =>
        LET last == g.items[Len(g.items)].image
            made == UNION {MadeFrom(im) : im \in Members(g)}
        IN /\ Cardinality(made) = 1
           /\ made = MadeFrom(last)
           /\ \A r \in made : r.fileName = g.fileName
           /\ \A t \in AnnotationsOf(g) :
                /\ t.imageId \in Ids(made)
                /\ \E a \in Range(last.annotations) : t.source = a.id
           /\ \A k \in 1..(Len(g.items) - 1) :
                ContributesNothing(g.items[k].image)

\* a committed merge under overwrite with a group of three images whose
\* first and last members hold annotations, the last one's copied
C11_Witness ==
  /\ Committed
  /\ req.handleDuplicateImages = "overwrite"
  /\ \E g \in Range(imageGroups) :
       /\ Len(g.items) = 3
       /\ g.items[1].image.annotations # <<>>
       /\ Len(g.items[3].image.annotations) = 2
       /\ FullyCopied(g.items[3].image)

\* the positions of the warnings the run produced for a file name
WarningsFor(fileName) ==
  {k \in 1..Len(duplicateWarnings) : duplicateWarnings[k].fileName = fileName}

\* C12: after a merge that commits, under every duplicate strategy, each
\* group of n > 1 images has exactly one warning, with count n and the names
\* of the datasets of its members, a group of one image has none, and
\* duplicateImagesFound is the number of groups of more than one image.
C12_OneWarningPerDuplicateGroup ==
  Committed =>
    /\ \A g \in Range(imageGroups) :
         IF Duplicated(g)
         THEN /\ Cardinality(WarningsFor(g.fileName)) = 1
              /\ \A k \in WarningsFor(g.fileName) :
                   /\ duplicateWarnings[k].count = Len(g.items)
                   /\ duplicateWarnings[k].datasets =
                        [m \in 1..Len(g.items) |-> datasets[g.items[m].dataset]]
         ELSE WarningsFor(g.fileName) = {}
    /\ Statistics.duplicateImagesFound =
         Cardinality({k \in 1..Len(imageGroups) : Duplicated(imageGroups[k])})

\* a committed merge under skip that warned once, about a group of three
\* images, and did not warn about a single image
C12_Witness ==
  /\ Committed
  /\ req.handleDuplicateImages = "skip"
  /\ Statistics.duplicateImagesFound = 1
  /\ \E k \in 1..Len(duplicateWarnings) :
       /\ duplicateWarnings[k].count = 3
       /\ Len(duplicateWarnings[k].datasets) = 3
  /\ \E g \in Range(imageGroups) : ~Duplicated(g)


\* a request the handler has to turn down: fewer than two sources, no name
\* for the new dataset, no target to merge into, a decision that is not
\* valid, a source or a target that is not in the record store
BadRequest ==
  \/ Len(req.sourceDatasetIds) < 2
  \/ req.mergeStrategy = "create_new" /\ req.newDatasetName = ""
  \/ req.mergeStrategy = "merge_into_existing" /\ req.targetDatasetId = 0
  \/ \E d \in Range(req.categoryMappingDecisions) :
       d.conflictIndex < 0 \/ d.action \notin {"merge", "keep_separate", "rename"}
  \/ \E id \in Range(req.sourceDatasetIds) : id \notin DOMAIN datasets
  \/ /\ req.mergeStrategy = "merge_into_existing"
     /\ req.targetDatasetId \notin DOMAIN datasets

RejectedWithoutEffect ==
  BadRequest =>
    /\ pc \in {"analyze", "request", "validated", "rejected"}
    /\ pc' \in {"request", "validated", "rejected"}
    /\ pc = "validated" => pc' = "rejected"
    /\ pc' = "rejected" => response' \in {400, 404}
    /\ txDatasets' = {} /\ txCats' = {} /\ txImgs' = {} /\ txAnns' = {}
    /\ UNCHANGED <<storeVars, objects, copiedFiles>>

\* C13: a request with fewer than two sources, without the name of the new
\* dataset, without the target to merge into, with a decision that is not
\* valid, or with a source or a target that does not exist is answered with
\* an error (400 or 404) and no step of it changes the record store, opens a
\* transaction or touches the object store
C13_RejectedWithoutEffect == [][RejectedWithoutEffect]_vars

C13_Witness ==
  /\ pc = "rejected"
  /\ response = 404
  /\ BadRequest
  /\ Len(req.sourceDatasetIds) >= 2
  /\ txDatasets = {}

ChangesStore == storeVars' # storeVars

AllOrNothing ==
  /\ ChangesStore =>
       /\ pc = "commit" /\ pc' = "committed"
       /\ DOMAIN datasets' = DOMAIN datasets \cup Ids(txDatasets)
       /\ \A d \in DOMAIN datasets : datasets'[d] = datasets[d]
       /\ dbCats' = dbCats \cup txCats
       /\ dbImgs' = dbImgs \cup txImgs
       /\ dbAnns' = dbAnns \cup txAnns
  /\ pc' = "committed" =>
       /\ Ids(txDatasets) \subseteq DOMAIN datasets'
       /\ txCats \subseteq dbCats'
       /\ txImgs \subseteq dbImgs'
       /\ txAnns \subseteq dbAnns'
  /\ pc' = "failed" =>
       /\ UNCHANGED storeVars
       /\ txDatasets' = {} /\ txCats' = {} /\ txImgs' = {} /\ txAnns' = {}
  /\ pc \in {"failed", "committed"} => UNCHANGED storeVars

\* C14: the record store changes in one step only, the commit, which adds
\* every dataset, category, image and annotation row the run created and
\* nothing else; a run whose transaction fails (a constraint that is not
\* caught, the timeout, a thrown error) leaves the record store as it was
\* and none of its rows is kept
C14_AllOrNothing == [][AllOrNothing]_vars

C14_Witness ==
  /\ Committed
  /\ txDatasets # {} /\ txCats # {} /\ txImgs # {} /\ txAnns # {}
  /\ Ids(txDatasets) \subseteq DOMAIN datasets
  /\ txCats \subseteq dbCats /\ txImgs \subseteq dbImgs /\ txAnns \subseteq dbAnns


\* the keys of the object store the Image rows of the open transaction carry
StagedKeys ==
  {r.filePath : r \in txImgs} \cup {r.thumbnailPath : r \in txImgs}

CopiesOnlyStaged ==
  /\ (pc = "copyFiles" /\ copyResults' # copyResults) =>
       \E r \in txImgs :
         /\ r.filePath = copiedFiles[i].to
         /\ r.datasetId = finalDatasetId
  /\ \A key \in objects' \ objects : key \in StagedKeys

\* C15: every copy the run attempts in the object store, whether it succeeds
\* or fails, goes to the key of an Image row the open transaction has
\* already created, and every key the run writes in the object store is the
\* file or thumbnail key of such a row
C15_CopyAfterImageRecord == [][CopiesOnlyStaged]_vars

C15_Witness ==
  /\ pc = "copyFiles"
  /\ i = 2
  /\ Len(copiedFiles) >= 2
  /\ copiedFiles[1].to \in objects
  /\ \E r \in txImgs : r.filePath = copiedFiles[2].to
  /\ dbImgs \cap txImgs = {}


\* a step in which the copy of one file fails
CopyFails == pc = "copyFiles" /\ copyResults'.failed # copyResults.failed

FailedCopyGoesOn ==
  CopyFails =>
    /\ copyResults'.failed = copyResults.failed + 1
    /\ copyResults'.success = copyResults.success
    /\ copyResults'.errors =
         Append(copyResults.errors,
                [from |-> copiedFiles[i].from, to |-> copiedFiles[i].to])
    /\ pc' \in {"copyFiles", "thumbnails", "commit"}
    /\ response' = 0
    /\ UNCHANGED <<txVars, storeVars, copiedFiles>>
    /\ \E r \in txImgs' : r.filePath = copiedFiles[i].to

CopyAccounting ==
  Committed =>
    /\ response = 200
    /\ Statistics.filesCopied + Statistics.filesCopyFailed = Len(copiedFiles)
    /\ Len(copiedFiles) = Cardinality({r \in txImgs : r.filePath # ""})
    /\ Len(Statistics.copyErrors) = Statistics.filesCopyFailed
    /\ \A k \in 1..Len(Statistics.copyErrors) :
         \E r \in dbImgs :
           /\ r.filePath = Statistics.copyErrors[k].to
           /\ r.datasetId = finalDatasetId

\* C16: the step in which the copy of a file fails adds one to filesCopyFailed
\* and one message to copyErrors, leaves the transaction and its Image row
\* as they are and goes on to the next copy; a run that commits answers 200,
\* its filesCopied and filesCopyFailed add up to the number of queued copies,
\* which is the number of created images with a file, and the Image row of
\* every failed copy is in the record store
C16_CopyFailureNotFatal == [][FailedCopyGoesOn]_vars /\ []CopyAccounting

C16_Witness ==
  /\ Committed
  /\ response = 200
  /\ Statistics.filesCopyFailed = 1
  /\ Statistics.filesCopied >= 1
  /\ \E r \in dbImgs : r.filePath = Statistics.copyErrors[1].to


\* the committed rows of dataset d in a set of rows
RowsOf(rows, d) == {r \in rows : r.datasetId = d}

SourcesUnchanged ==
  \A d \in Range(req.sourceDatasetIds) \cap DOMAIN datasets :
    /\ d \in DOMAIN datasets' /\ datasets'[d] = datasets[d]
    /\ RowsOf(dbCats', d) = RowsOf(dbCats, d)
    /\ RowsOf(dbImgs', d) = RowsOf(dbImgs, d)
    /\ RowsOf(dbAnns', d) = RowsOf(dbAnns, d)

\* C17 as stated: no step of a merge creates, updates or deletes a Dataset,
\* Category, Image or Annotation row of a source dataset, so the committed
\* rows of every source dataset are the same after the merge as before it.
C17_SourcesUnchanged == [][SourcesUnchanged]_vars


\* the analyzer has answered and the merge has not begun
Analyzed == pc = "request"

\* the categories of the target the analysis takes in
ListedOfTarget ==
  IF /\ req.mergeStrategy = "merge_into_existing"
     /\ req.targetDatasetId \in DOMAIN datasets
  THEN {c \in dbCats : c.datasetId = req.targetDatasetId}
  ELSE {}

\* the source datasets of the request that exist
SourcesOfRequest == Range(req.sourceDatasetIds) \cap DOMAIN datasets

ListedOfSource(d) == Range(snap[d].categories)

\* what a conflict lists for category c as a member of dataset d
MemberOf(c, d, datasetName) ==
  [datasetId |-> d, datasetName |-> datasetName, categoryId |-> c.id,
   annotationCount |-> Cardinality({a \in dbAnns : a.categoryId = c.id})]

\* the members of the group of the categories that satisfy Same(c), taken
\* over the target and the sources
TargetMembers(name, cocoIds) ==
  {MemberOf(c, c.datasetId, "Target Dataset") :
     c \in {t \in ListedOfTarget : t.name = name /\ t.cocoId \in cocoIds}}

SourceMembers(name, cocoIds) ==
  UNION {{MemberOf(c, d, datasets[d]) :
            c \in {t \in ListedOfSource(d) :
                     t.name = name /\ t.cocoId \in cocoIds}} :
           d \in SourcesOfRequest}

GroupSize(name, cocoIds) ==
  Cardinality(TargetMembers(name, cocoIds))
    + Cardinality(SourceMembers(name, cocoIds))

AnalyzedCategories ==
  ListedOfTarget \cup UNION {ListedOfSource(d) : d \in SourcesOfRequest}

\* list holds one conflict for every group of categories with the same name
\* and cocoId that has more than one member, and nothing else; each
\* conflict lists the members of its group
ReportsExactGroups(list) ==
  /\ \A c \in AnalyzedCategories :
       GroupSize(c.name, {c.cocoId}) > 1 =>
         Cardinality({k \in 1..Len(list) :
                        /\ list[k].categoryName = c.name
                        /\ list[k].cocoId = c.cocoId}) = 1
  /\ \A k \in 1..Len(list) :
       LET name == list[k].categoryName
           ids == {list[k].cocoId}
       IN /\ GroupSize(name, ids) > 1
          /\ Len(list[k].datasets) = GroupSize(name, ids)
          /\ Range(list[k].datasets) =
               TargetMembers(name, ids) \cup SourceMembers(name, ids)

CocoIdsOf(name) == {c.cocoId : c \in {t \in AnalyzedCategories : t.name = name}}

\* list holds one entry with cocoId -1 for every name that categories carry
\* with more than one cocoId, and nothing else; each entry lists all the
\* categories of that name
ReportsNameGroups(list) ==
  /\ \A c \in AnalyzedCategories :
       Cardinality(CocoIdsOf(c.name)) > 1 =>
         Cardinality({k \in 1..Len(list) : list[k].categoryName = c.name}) = 1
  /\ \A k \in 1..Len(list) :
       LET name == list[k].categoryName
       IN /\ list[k].cocoId = -1
          /\ Cardinality(CocoIdsOf(name)) > 1
          /\ Len(list[k].datasets) = GroupSize(name, CocoIdsOf(name))
          /\ Range(list[k].datasets) =
               TargetMembers(name, CocoIdsOf(name))
                 \cup SourceMembers(name, CocoIdsOf(name))

ConflictsDetected ==
  pc \in {"firstPass", "secondPass", "groupImages", "images", "copyFiles",
          "thumbnails", "commit", "committed"}

\* the entry of the merge and the entry of the analyzer are about the same
\* key and the same categories of the same datasets
SameConflict(mine, seen) ==
  /\ mine.key = seen.categoryName \o "_" \o ToString(seen.cocoId)
  /\ {<<it.dataset, it.category.id>> : it \in Range(mine.items)}
       = {<<m.datasetId, m.categoryId>> : m \in Range(seen.datasets)}
  /\ Len(mine.items) = Len(seen.datasets)

\* C19 as stated: for the same request the indexed list of conflicts of the
\* merge equals the list of conflicts the analyzer returned: at every index
\* of the answer of the analyzer the merge has a conflict with the same key
\* and the same members.
C19_SameConflictList ==
  ConflictsDetected =>
    /\ Len(conflicts) = Len(analysis.conflicts)
    /\ \A k \in 1..Len(analysis.conflicts) :
         /\ k <= Len(conflicts)
         /\ conflicts[k].index = k - 1
         /\ SameConflict(conflicts[k], analysis.conflicts[k])


\* a decision of action merge is made for a conflict of the merge that has
\* category categoryId of dataset datasetId among its members
CoveredByMerge(datasetId, categoryId) ==
  \E k \in 1..Len(conflicts) :
    /\ \E it \in Range(conflicts[k].items) :
         it.dataset = datasetId /\ it.category.id = categoryId
    /\ \E d \in Range(req.categoryMappingDecisions) :
         d.conflictIndex = conflicts[k].index /\ d.action = "merge"

\* two categories of the sources with the same name and different cocoIds
NameConflictPairs ==
  {p \in Range(AllItems(sourceDatasets)) \X Range(AllItems(sourceDatasets)) :
     /\ p[1].category.name = p[2].category.name
     /\ p[1].category.cocoId # p[2].category.cocoId}

\* C20 as stated: the analyzer suggests keep_separate for every name
\* conflict, and once the categories are resolved two source categories
\* with the same name and different cocoIds, neither of them covered by a
\* decision of action merge, are not mapped to the same target category.
C20_NameConflictsNeverMerged ==
  /\ Analyzed =>
       \A k \in 1..Len(analysis.conflicts) :
         analysis.conflicts[k].cocoId = -1 =>
           analysis.conflicts[k].suggestedAction = "keep_separate"
  /\ Resolved =>
       \A p \in NameConflictPairs :
         (/\ ~CoveredByMerge(p[1].dataset, p[1].category.id)
          /\ ~CoveredByMerge(p[2].dataset, p[2].category.id)
          /\ MappedTo(p[1].dataset, p[1].category.id) # 0)
         => MappedTo(p[1].dataset, p[1].category.id)
              # MappedTo(p[2].dataset, p[2].category.id)


\* the positions of the decisions made for a conflict that has the item
\* among its members
DecisionsFor(item) ==
  {k \in 1..Len(req.categoryMappingDecisions) :
     \E c \in 1..Len(conflicts) :
       /\ req.categoryMappingDecisions[k].conflictIndex = conflicts[c].index
       /\ \E it \in Range(conflicts[c].items) :
            it.dataset = item.dataset /\ it.category.id = item.category.id}

\* the name the default categoryMergeStrategy gives to the target of an item
DefaultName(item) ==
  LET dsName == datasets[item.dataset]
  IN CASE req.categoryMergeStrategy = "keep_separate" ->
            dsName \o "_" \o item.category.name
       [] req.categoryMergeStrategy = "merge_by_name" -> item.category.name
       [] req.categoryMergeStrategy = "prefix_with_dataset" ->
            "[" \o dsName \o "] " \o item.category.name

\* the name the action of a decision other than merge gives to the target
DecidedName(item, decision) ==
  IF decision.action = "rename" /\ decision.targetCategoryName # ""
  THEN decision.targetCategoryName
  ELSE datasets[item.dataset] \o "_" \o item.category.name

\* the step of the second pass that maps a category
MapsByDecisionOrDefault ==
  (pc = "secondPass" /\ pc' # "failed") =>
    LET item == AllItems(sourceDatasets)[i]
        key == ToString(item.dataset) \o ":" \o ToString(item.category.id)
        ks == DecisionsFor(item)
        decision == req.categoryMappingDecisions[Max(ks)]
        target == CHOOSE c \in dbCats \cup txCats' : c.id = categoryMappings'[key]
    IN /\ key \in DOMAIN categoryMappings'
       /\ \E c \in dbCats \cup txCats' :
            c.id = categoryMappings'[key] /\ c.datasetId = finalDatasetId
       /\ IF ks = {} THEN target.name = DefaultName(item)
          ELSE IF decision.action = "merge"
          THEN /\ decision.conflictIndex \in DOMAIN mergeTargetCategories
               /\ target.id = mergeTargetCategories[decision.conflictIndex]
          ELSE target.name = DecidedName(item, decision)

\* C21: the second pass maps a source category that is a member of an
\* indexed conflict for which the request holds a decision as the action of
\* that decision says (the one given last for the index): to the cached
\* merge target, to the renamed category or to the category prefixed with
\* the name of its dataset, whatever the default strategy; it maps every
\* other source category as the default categoryMergeStrategy says
C21_DecisionOrDefault == [][MapsByDecisionOrDefault]_vars

C21_Witness ==
  /\ Committed
  /\ req.categoryMergeStrategy = "prefix_with_dataset"
  /\ req.categoryMappingDecisions = <<Decision(0, "rename", "", 0)>>
  /\ \E c \in txCats : c.id = MappedTo(1, 11) /\ c.name = "A_a"
  /\ \E c \in txCats : c.id = MappedTo(1, 12) /\ c.name = "[A] b"


\* the categories a step of the orphan pass appends to the working list of
\* the dataset it visits
AppendedByRepair ==
  {sourceDatasets'[i].categories[k] :
     k \in (Len(sourceDatasets[i].categories) + 1)
             ..Len(sourceDatasets'[i].categories)}

RepairAppendsOwnOnly ==
  (pc = "orphans" /\ pc' # "failed") =>
    \A c \in AppendedByRepair :
      /\ c \in dbCats
      /\ \E im \in Range(sourceDatasets[i].images) :
           \E a \in Range(im.annotations) : a.categoryId = c.id
      /\ c.id \notin Ids(Range(sourceDatasets[i].categories))
      /\ c.datasetId = sourceDatasets[i].id

\* C22 as stated: the orphan repair pass appends to the working category
\* list of a source dataset only categories that its annotations reference,
\* that its loaded list lacks, that the record store holds and that belong
\* to that same source dataset; a category of another dataset is not
\* appended.
C22_RepairAppendsOwnOnly == [][RepairAppendsOwnOnly]_vars


\* path.parse(fileName).ext: the extension with its dot, empty without one
DotExtension(fileName) ==
  IF fileName = "h" THEN "" ELSE "." \o Extension(fileName)

\* the target images made from member k of a group have this file name
MemberNamed(g, k, fileName) ==
  \A r \in MadeFrom(g.items[k].image) : r.fileName = fileName

\* C23 as stated: with rename, the first member of a duplicate group keeps
\* the file name and every later member gets the stem of the name, "_", the
\* name of its source dataset and the extension.
C23_RenamedByDataset ==
  (Committed /\ req.handleDuplicateImages = "rename") =>
    \A g \in Range(imageGroups) :
      Duplicated(g) =>
        /\ MemberNamed(g, 1, g.fileName)
        /\ \A k \in 2..Len(g.items) :
             MemberNamed(g, k,
                         NameWithoutExt(g.fileName) \o "_"
                           \o datasets[g.items[k].dataset]
                           \o DotExtension(g.fileName))

\* C23, amended: with rename, in a merge that commits, every member of a
\* duplicate group has exactly one target image; that of the first member
\* keeps the file name, that of member k > 1 in source order has the name
\* without its last extension, "_", k, "." and the text after the last dot
\* of the name (the whole name when it has no dot).
C23_RenamedByPosition ==
  (Committed /\ req.handleDuplicateImages = "rename") =>
    \A g \in Range(imageGroups) :
      Duplicated(g) =>
        /\ \A k \in 1..Len(g.items) :
             Cardinality(MadeFrom(g.items[k].image)) = 1
        /\ MemberNamed(g, 1, g.fileName)
        /\ \A k \in 2..Len(g.items) :
             MemberNamed(g, k,
                         NameWithoutExt(g.fileName) \o "_" \o ToString(k)
                           \o "." \o Extension(g.fileName))

C23_Witness ==
  /\ Committed
  /\ req.handleDuplicateImages = "rename"
  /\ \E g \in Range(imageGroups) :
       /\ Len(g.items) = 3
       /\ g.fileName = "f.jpg"
       /\ \E r \in MadeFrom(g.items[1].image) : r.fileName = "f.jpg"
       /\ \E r \in MadeFrom(g.items[2].image) : r.fileName = "f_2.jpg"
       /\ \E r \in MadeFrom(g.items[3].image) : r.fileName = "f_3.jpg"


\* the cocoIds taken in the output dataset, as the open transaction sees it
TakenCocoIds == {c.cocoId : c \in TargetCats}

\* the first pass is about to create the target of a merge decision
FirstPassCreates ==
  /\ pc = "firstPass"
  /\ i <= Len(req.categoryMappingDecisions)
  /\ req.categoryMappingDecisions[i].action = "merge"
  /\ req.categoryMappingDecisions[i].conflictIndex < Len(conflicts)
  /\ req.categoryMappingDecisions[i].conflictIndex
       \notin DOMAIN mergeTargetCategories
  /\ LET decision == req.categoryMappingDecisions[i]
         first == conflicts[decision.conflictIndex + 1].items[1].category
     IN FindByName(IF decision.targetCategoryName # ""
                   THEN decision.targetCategoryName ELSE first.name) = 0

FirstPassCocoId ==
  LET decision == req.categoryMappingDecisions[i]
      first == conflicts[decision.conflictIndex + 1].items[1].category
  IN IF decision.targetCocoId # 0 THEN decision.targetCocoId ELSE first.cocoId

\* the second pass is about to create the target of a category
SecondPassCreates ==
  /\ pc = "secondPass"
  /\ i <= Len(AllItems(sourceDatasets))
  /\ LET item == AllItems(sourceDatasets)[i]
     IN /\ ~IsMergeDecided(item.category)
        /\ FindByName(TargetSpec(item.category,
                                 SourceDataset(item.dataset)).name) = 0

SecondPassCocoId ==
  LET item == AllItems(sourceDatasets)[i]
  IN TargetSpec(item.category, SourceDataset(item.dataset)).cocoId

\* C24 as stated: the cocoId a pass is about to give to a category it
\* creates (the targetCocoId of the decision, else the cocoId of the first
\* member of the conflict for a merge decision, else the cocoId of the
\* source category plus 10000 times the id of its dataset) is not the cocoId
\* of a category the output dataset already holds or the run has created,
\* so no creation violates the uniqueness of (cocoId, datasetId).
C24_CreatedCocoIdsFree ==
  /\ FirstPassCreates => FirstPassCocoId \notin TakenCocoIds
  /\ SecondPassCreates => SecondPassCocoId \notin TakenCocoIds


\* the phase a position of the handler belongs to: 0 before the categories
\* are mapped, 1 while the images are resolved, 2 while the assets are
\* copied, 3 when all is staged, 4 after the commit
PhaseOf(position) ==
  CASE position \in {"analyze", "request", "validated", "loaded", "orphans",
                     "conflicts", "firstPass", "secondPass"} -> 0
    [] position \in {"groupImages", "images"} -> 1
    [] position \in {"copyFiles", "thumbnails"} -> 2
    [] position = "commit" -> 3
    [] position = "committed" -> 4
    [] OTHER -> 5

Ended == pc' \in {"failed", "rejected"}

\* every category of the working lists of the source datasets is mapped
DeclaredMapped ==
  \A sd \in Range(sourceDatasets) :
    \A c \in Range(sd.categories) :
      MappedTo(sd.id, c.id) # 0

NothingCopiedYet ==
  /\ copyResults.success = 0 /\ copyResults.failed = 0
  /\ thumbnailCopyResults.success = 0 /\ thumbnailCopyResults.failed = 0

CopyAttempted ==
  \/ copyResults' # copyResults
  \/ thumbnailCopyResults' # thumbnailCopyResults
  \/ objects' # objects

\* what the two orders have in common
PhasesInOrder ==
  /\ ~Ended => PhaseOf(pc') >= PhaseOf(pc)
  /\ pc' = "committed" => pc = "commit"
  /\ (txImgs' # txImgs /\ ~Ended) => (PhaseOf(pc) = 1 /\ DeclaredMapped)
  /\ CopyAttempted =>
       /\ PhaseOf(pc) = 2
       /\ UNCHANGED <<txVars, categoryVars, imageVars>>
  /\ req' = req

AnnotationsAfterCopies ==
  (txAnns' # txAnns /\ ~Ended) => PhaseOf(pc) >= 2

\* C25 as stated: a run goes through its phases in the order categories
\* mapped, images resolved, assets copied, annotations re-parented,
\* committed, never back: the declared source categories are all mapped
\* before the first Image row is created, and no annotation is created
\* before the asset copies are over.
C25_PhasesAsStated == [][PhasesInOrder /\ AnnotationsAfterCopies]_vars

AnnotationsWithImages ==
  (txAnns' # txAnns /\ ~Ended) =>
    /\ PhaseOf(pc) = 1
    /\ NothingCopiedYet
    /\ \A t \in txAnns' \ txAnns : t.imageId \in Ids(txImgs' \ txImgs)

InTransaction ==
  pc \in {"orphans", "conflicts", "firstPass", "secondPass", "groupImages",
          "images", "copyFiles", "thumbnails", "commit"}

\* C25, amended: a run goes through its phases in the order categories
\* mapped, images resolved, assets copied, committed, never back: the
\* categories of the working lists are all mapped before the first Image row
\* is created, every annotation is created in the images phase in the step
\* that creates its Image row and before any copy is attempted, copies are
\* attempted only after the last image is resolved and change no row, the
\* commit comes last, and in every phase inside the transaction the run can
\* fail.
C25_PhasesInOrder ==
  /\ [][PhasesInOrder /\ AnnotationsWithImages]_vars
  /\ [](InTransaction => ENABLED TransactionTimeout)

C25_Witness ==
  /\ pc = "thumbnails"
  /\ txAnns # {}
  /\ copyResults.success >= 1
  /\ DeclaredMapped
  /\ ENABLED TransactionTimeout

----------------------------------------------------------------------------
(* C26: the progress of one merge run never goes backwards                *)

\* the run has an entry in the sink before and after the step
KeepsEntry(mergeId) ==
  /\ mergeId \in DOMAIN mergeProgress
  /\ mergeId \in DOMAIN mergeProgress'

\* the entry of the run moves forward only, and not at all once completed
EntryMovesForward(mergeId) ==
  KeepsEntry(mergeId) =>
    /\ mergeProgress'[mergeId].current >= mergeProgress[mergeId].current
    /\ mergeProgress'[mergeId].total = mergeProgress[mergeId].total
    /\ mergeProgress'[mergeId].total = runs[mergeId].total
    /\ Percentage(mergeProgress'[mergeId]) >=
         Percentage(mergeProgress[mergeId])
    /\ mergeProgress[mergeId].completed =>
         mergeProgress'[mergeId] = mergeProgress[mergeId]

\* two successive answers to the polls of one run
PollsMoveForward(mergeId) ==
  polled[mergeId].status = 200 /\ polled'[mergeId].status = 200 =>
    /\ polled'[mergeId].percentage >= polled[mergeId].percentage
    /\ polled'[mergeId].current >= polled[mergeId].current
    /\ polled'[mergeId].total = polled[mergeId].total
    /\ polled[mergeId].completed => polled'[mergeId] = polled[mergeId]

ProgressMovesForward ==
  \A mergeId \in MergeIds :
    EntryMovesForward(mergeId) /\ PollsMoveForward(mergeId)

----------------------------------------------------------------------------
(* C27: a failing annotation is counted and the others go on              *)

\* the loaded source images
LoadedImages ==
  UNION {Range(sourceDatasets[k].images) : k \in 1..Len(sourceDatasets)}

\* the messages of the run about the annotation
ReportsAbout(annotation) ==
  {k \in 1..Len(totalAnnotationResults.errors) :
     totalAnnotationResults.errors[k].annotation = annotation.id}

\* the messages of the run of one kind
ReportsOfKind(kind) ==
  {k \in 1..Len(totalAnnotationResults.errors) :
     totalAnnotationResults.errors[k].kind = kind}

\* the annotation of the image is either copied once or reported once
CountedOnce(annotation, image) ==
  Cardinality(CopiesOf(annotation, image))
    + Cardinality(ReportsAbout(annotation)) = 1

\* the number of source annotations of the surviving images
SurvivingAnnotations ==
  Cardinality(UNION {Range(image.annotations) :
                       image \in {im \in LoadedImages : Survives(im)}})

\* while the transaction lives, every source annotation of a surviving image
\* is counted exactly once, and the three counters are the counts of the
\* copies and of the messages
AnnotationAccounting ==
  pc \in {"images", "copyFiles", "thumbnails", "commit", "committed"} =>
    /\ \A image \in LoadedImages :
         Survives(image) =>
           \A a \in Range(image.annotations) : CountedOnce(a, image)
    /\ Statistics.annotationsCopied =
         Cardinality({t \in txAnns : t.source # 0})
    /\ Statistics.annotationsCopyFailed =
         Cardinality(ReportsOfKind("annotation"))
    /\ Statistics.annotationsSkippedNoCategory =
         Cardinality(ReportsOfKind("category"))
    /\ Statistics.annotationsCopied + Statistics.annotationsCopyFailed
         + Statistics.annotationsSkippedNoCategory = SurvivingAnnotations

\* an annotation is skipped or fails in the step
AnnotationFails ==
  /\ pc = "images"
  /\ Len(totalAnnotationResults'.errors) > Len(totalAnnotationResults.errors)

\* the step in which an annotation fails keeps the transaction and creates
\* the image
FailedAnnotationGoesOn ==
  AnnotationFails =>
    /\ pc' \in {"images", "copyFiles", "thumbnails", "commit"}
    /\ response' = 0
    /\ Cardinality(txImgs') = Cardinality(txImgs) + 1
    /\ txAnns \subseteq txAnns'

----------------------------------------------------------------------------
(* C28: keep_separate keeps the categories of different datasets apart    *)

\* the category is resolved by keep_separate: by the decision given last for
\* its conflict, or by the default strategy when it has no decision
UnderKeepSeparate(item) ==
  LET ks == DecisionsFor(item)
  IN IF ks = {} THEN req.categoryMergeStrategy = "keep_separate"
     ELSE req.categoryMappingDecisions[Max(ks)].action = "keep_separate"

\* two categories of different source datasets, both resolved by
\* keep_separate and both mapped
KeptSeparatePairs ==
  {pair \in Range(AllItems(sourceDatasets)) \X Range(AllItems(sourceDatasets)) :
     /\ pair[1].dataset # pair[2].dataset
     /\ UnderKeepSeparate(pair[1])
     /\ UnderKeepSeparate(pair[2])
     /\ MappingKey(pair[1].dataset, pair[1].category.id)
          \in DOMAIN categoryMappings
     /\ MappingKey(pair[2].dataset, pair[2].category.id)
          \in DOMAIN categoryMappings}

\* C28: after category resolution, two source categories that come from
\* different source datasets and are resolved by keep_separate (as the
\* decision for their conflict or as the default strategy) are mapped to
\* different target categories
C28_KeepSeparateStaysSeparate ==
  Resolved =>
    \A pair \in KeptSeparatePairs :
      categoryMappings[MappingKey(pair[1].dataset, pair[1].category.id)]
        # categoryMappings[MappingKey(pair[2].dataset, pair[2].category.id)]

----------------------------------------------------------------------------
(* C29: a thumbnailPath only where the thumbnail was copied               *)

\* the Image rows the committed run created
CreatedImages ==
  {r \in dbImgs : r.datasetId = finalDatasetId /\ r.source # 0}

\* C29: after a committed merge, every Image row the run created that has a
\* thumbnailPath has its thumbnail object under that key in the object
\* store; a thumbnail that was missing or whose copy failed leaves the row
\* without thumbnailPath
C29_ThumbnailPathOnlyIfCopied ==
  Committed =>
    \A r \in CreatedImages : r.thumbnailPath # "" => r.thumbnailPath \in objects

----------------------------------------------------------------------------
(* C30: the file names of the images of one run are distinct              *)

\* no two Image rows created by the run share a file name
DistinctFileNames ==
  \A r1, r2 \in txImgs : r1.id # r2.id => r1.fileName # r2.fileName

\* no two queued copies share a destination key
DistinctDestinations ==
  \A k, m \in 1..Len(copiedFiles) :
    k # m => copiedFiles[k].to # copiedFiles[m].to

\* C30: within one run, under every duplicate strategy, no two Image rows
\* the run creates share a fileName and no two queued copies share a
\* destination key, also when a name generated by rename is the file name
\* of another source image
C30_DistinctFileNames == DistinctFileNames /\ DistinctDestinations
====
